---- MODULE Spec2Model ----
(***************************************************************************)
(* A model of the `paged` crate: the writer (Encoder / section::Encoder),  *)
(* the reader's page bisection (Reader::binary_search_by_key over          *)
(* Page::binary_search_by_key) and the page cache (Cache over a            *)
(* sharded_slab Pool, with the Ref handles that pin its slots).            *)
(*                                                                         *)
(* The specifications share the module; each moves its own variables and *)
(* leaves the others parked at their initial values:                       *)
(*   SpecWriter  begin_section / push / end / add_heap on one Encoder      *)
(*   SpecSearch  Reader::binary_search_by_key on one section               *)
(*   SpecPage    Page::binary_search_by_key on one key-ordered page        *)
(*   SpecCache   threads calling Cache::get / Cache::get_or_insert         *)
(*   SpecRef     a client mapping, cloning, stepping and dropping Refs     *)
(*   SpecCodec   records encoded to a page and a heap, and decoded back    *)
(*   SpecGeometry the page arithmetic of a Section descriptor in u32       *)
(*   SpecAddHeap Encoder::add_heap with the heap's page count in u32       *)
(*   SpecGet     Reader::get on a section the Encoder wrote                *)
(*   SpecShared  threads in Reader::get_page sharing the cursor and Cache  *)
(*   SpecIter    Reader::pages and Reader::iter over one section           *)
(*   SpecCursor  the Cursor under seek, pad, read and heap dereferences    *)
(***************************************************************************)
EXTENDS Integers, Sequences, FiniteSets, Bags, TLC

(***************************************************************************)
(* Bounds of the model.                                                    *)
(***************************************************************************)
MaxPageLen == 4
MaxSectionEntries == 4
MaxRegions == 3
MaxSpill == 2
MaxKey == 5
MaxIters == 6
MaxSlots == 3
MaxRefs == 2
MaxCachedPage == 1
InitLen == 2
MaxVecLen == 2
MaxRecs == 2
CodecPageLen == 32
WordBits == 4
MaxGeoPageLen == 3
MaxGetRecs == 3
MaxCursorRead == 2

Threads == {1, 2}

FirstPageOffsets == {0, 3}

\* Where the input may differ from what was written: the first byte of the
\* first record, and the low byte of the offset of a stub that begins it.
TamperAt == {1, 4}
CorruptBytes == {3, 40}

VARIABLES
    \* ---- options shared by the writer and the reader ----
    page_len,           \* Encoder.page_len / Options.page_len (P)
    first_page_offset,  \* Options.first_page_offset
    encoded_size,       \* T::ENCODED_SIZE of the section's records
    \* ---- writer: lib.rs Encoder<W> and section.rs Encoder<W, T> ----
    output,             \* position of Encoder.output
    page_count,         \* Encoder.page_count
    sec,                \* the live section::Encoder, or NoSection
    heap_len,           \* Heap.data.len() of the heap under construction
    regions,            \* descriptors returned so far, with where their bytes began
    last_op,            \* the last writer operation performed
    \* ---- reader: Reader::binary_search_by_key ----
    entries,            \* the keys of the section's records, in section order
    key,                \* the key the comparator f searches for
    s_pc,               \* "call", "loop" or "done"
    min,                \* local min
    max,                \* local max
    page_index,         \* local page_index
    result,             \* the value returned
    iters,              \* iterations of the while loop run so far
    \* ---- cache: reader/cache.rs Cache<T> and Ref ----
    index,              \* Cache.index: global page index -> slot, NoSlot if absent
    pool,               \* Cache.pool: the slots of the sharded_slab Pool
    arcs,               \* the Arc<pool::Ref> allocations, each with the Refs holding it
    th,                 \* per thread: its position in get / get_or_insert / set
    \* ---- codec: encode.rs, decode.rs, heap.rs and the derived impls ----
    ty,                 \* the record type T, by name
    path,               \* "flat" (Encode / Decode) or "heap" (EncodeOnHeap / DecodeFromHeap)
    recs,               \* the records to encode, in order
    c_pc,               \* "encode", "decode" or "done"
    out,                \* the bytes written to the output so far
    heap,               \* Heap.data
    lens,               \* per record encoded: the bytes it wrote and the length returned
    stream,             \* the bytes of the input the Cursor reads
    hsec,               \* the HeapSection descriptor
    input_pos,          \* the Cursor: its input's position, current_offset
    decoded,            \* per record decoded: where it began and the io::Result
    tampered,           \* whether the input differs from what was written
    \* ---- geometry: section.rs Section<T> ----
    g_build,            \* "checked" (overflow checks) or "wrapping"
    g_entry_count,      \* Section.entry_count
    g_arg,              \* the page or entry index passed
    g_op,               \* the method called last
    g_result,           \* what it returned, or the panic
    \* ---- reader: reader.rs Reader::get over one section of a written file ----
    section,            \* the Section descriptor
    entry_index,        \* the argument of the call of get
    r_pc,               \* "write", then "idle" or "call"; "pages", "iter" or
                        \* "iter_loop" once an iterator is made
    got,                \* what the last call of get or next_with returned
    \* ---- reader: reader.rs Pages and Iter ----
    pages,              \* Pages: page_count, page_index
    current_page,       \* Iter.current_page, NoPage for None
    yielded             \* the Ok items the iterator returned so far

opts == <<page_len, first_page_offset, encoded_size>>
wvars == <<output, page_count, sec, heap_len, regions, last_op>>
svars == <<entries, key, s_pc, min, max, page_index, result, iters>>
cvars == <<index, pool, arcs, th>>
dvars == <<ty, path, recs, c_pc, out, heap, lens, stream, hsec, input_pos, decoded,
          tampered>>
gvars == <<g_build, g_entry_count, g_arg, g_op, g_result>>
rvars == <<section, entry_index, r_pc, got, pages, current_page, yielded>>
vars == <<opts, wvars, svars, cvars, dvars, gvars, rvars>>

----------------------------------------------------------------------------
(***************************************************************************)
(* Values of the state, and each component before it is used.              *)
(***************************************************************************)
NoSection == [active |-> FALSE]

None == [some |-> FALSE]
Some(p, i) == [some |-> TRUE, page |-> p, i |-> i]
IoError == [some |-> FALSE, err |-> TRUE]

CacheKeys == 0..MaxCachedPage
Slots == 1..MaxSlots
NoSlot == 0

\* What a Ref holds in its field u: the page, entry i of the page, an
\* iterator about to yield entry i, an entry an iterator yielded, or an
\* owned copy of an entry.
View(v, i) == [view |-> v, i |-> i]

FreeSlot == [state |-> "free", page |-> <<>>, pins |-> 0, marked |-> FALSE]

IdleThread == [pc |-> "idle", op |-> "none", key |-> 0, slot |-> NoSlot,
               n |-> 0, res |-> "none", ret |-> [kind |-> "none"]]

\* A thread that is back from its call with value v.
Returned(v) == [IdleThread EXCEPT !.ret = v]

WriterParked ==
    /\ output = 0
    /\ page_count = 0
    /\ sec = NoSection
    /\ heap_len = 0
    /\ regions = <<>>
    /\ last_op = "off"

SearchParked ==
    /\ entries = <<>>
    /\ key = 0
    /\ s_pc = "off"
    /\ min = 0
    /\ max = 0
    /\ page_index = 0
    /\ result = None
    /\ iters = 0

CacheParked ==
    /\ index = [k \in CacheKeys |-> NoSlot]
    /\ pool = [s \in Slots |-> FreeSlot]
    /\ arcs = EmptyBag
    /\ th = [t \in Threads |-> IdleThread]

\* A Cursor over the input: the position of the input (from 0) and the
\* field current_offset.
At(a, c) == [at |-> a, current_offset |-> c]

\* Cursor::seek
Seek(offset) == At(offset, offset)

\* Cursor::pad
CursorPad(p, padding) == At(p.at + padding, p.current_offset + padding)

\* Option::None for Iter.current_page
NoPage == [some |-> FALSE]

\* No Pages iterator made yet.
NoPages == [page_count |-> 0, page_index |-> 0]

ReaderParked ==
    /\ section = [page_offset |-> 0, entry_count |-> 0]
    /\ entry_index = 0
    /\ r_pc = "off"
    /\ got = [kind |-> "none"]
    /\ pages = NoPages
    /\ current_page = NoPage
    /\ yielded = 0

CodecParked ==
    /\ ty = "none"
    /\ path = "none"
    /\ recs = <<>>
    /\ c_pc = "off"
    /\ out = <<>>
    /\ heap = <<>>
    /\ lens = <<>>
    /\ stream = <<>>
    /\ hsec = [page_offset |-> 0, page_count |-> 0]
    /\ input_pos = Seek(0)
    /\ decoded = <<>>
    /\ tampered = FALSE

GeometryParked ==
    /\ g_build = "none"
    /\ g_entry_count = 0
    /\ g_arg = 0
    /\ g_op = "off"
    /\ g_result = [kind |-> "none"]

----------------------------------------------------------------------------
(***************************************************************************)
(* utils.rs                                                                *)
(***************************************************************************)
CeilingDiv(a, b) == (a + b - 1) \div b

(***************************************************************************)
(* Writer                                                                  *)
(***************************************************************************)
\* section::Encoder::new
NewSectionEncoder(offset) ==
    [active |-> TRUE, page_offset |-> offset, len |-> 0, entry_count |-> 0,
     empty_page |-> TRUE]

\* section::Encoder::padding
Padding(len, P) ==
    LET shift == len % P IN IF shift = 0 THEN 0 ELSE P - shift

\* Heap::page_count
HeapPageCount(len, P) == CeilingDiv(len, P)

\* Heap::padding
HeapPadding(len, P) ==
    LET shift == len % P IN IF shift = 0 THEN 0 ELSE P - shift

\* Encoder::pad without the seek: the padding is counted but not skipped.
PadSkipped(pos, padding) == pos

\* Encoder::pad: output.seek(SeekFrom::Current(padding))
Pad(pos, padding) == pos + padding

\* The bytes an integer / struct / String / Vec record writes to the page and
\* the length its encode_on_heap returns: its ENCODED_SIZE.
EncodeOnHeapLen(S) == S

\* The caller's choice of page length, first page offset and record type.
InitOptions ==
    /\ page_len \in 2..MaxPageLen
    /\ encoded_size \in 1..page_len
    /\ first_page_offset \in FirstPageOffsets

\* Encoder::new
InitEncoder ==
    /\ output = first_page_offset
    /\ page_count = 0
    /\ sec = NoSection
    /\ heap_len = 0
    /\ regions = <<>>
    /\ last_op = "new"

\* Encoder::begin_section
BeginSection ==
    /\ ~sec.active
    /\ Len(regions) < MaxRegions
    /\ sec' = NewSectionEncoder(page_count)
    /\ regions' = Append(regions, [kind |-> "section", start |-> output, len |-> 0,
                                   desc |-> [page_offset |-> page_count,
                                             entry_count |-> 0]])
    /\ last_op' = "begin_section"
    /\ UNCHANGED <<output, page_count, heap_len>>
    /\ UNCHANGED <<opts, svars, cvars, dvars, gvars, rvars>>

\* section::Encoder::push; `spill` is the number of bytes the record's
\* variable-length fields append to the shared heap.
Push(spill) ==
    /\ sec.active
    /\ sec.entry_count < MaxSectionEntries
    /\ LET len == EncodeOnHeapLen(encoded_size)
           counted == IF sec.empty_page THEN page_count + 1 ELSE page_count
           len1 == sec.len + len
           padding == Padding(len1, page_len)
           pads == padding < encoded_size
           out1 == output + len
       IN /\ page_count' = counted
          /\ output' = IF pads THEN Pad(out1, padding) ELSE out1
          /\ sec' = [sec EXCEPT !.len = IF pads THEN len1 + padding ELSE len1,
                                !.entry_count = @ + 1,
                                !.empty_page = pads]
          /\ regions' = [regions EXCEPT ![Len(regions)].len = sec'.len]
    /\ heap_len' = heap_len + spill
    /\ last_op' = "push"
    /\ UNCHANGED <<opts, svars, cvars, dvars, gvars, rvars>>

\* section::Encoder::end
EndSection ==
    /\ sec.active
    /\ sec' = NoSection
    /\ regions' = [regions EXCEPT ![Len(regions)].desc =
                       [page_offset |-> sec.page_offset,
                        entry_count |-> sec.entry_count]]
    /\ last_op' = "end"
    /\ UNCHANGED <<output, page_count, heap_len>>
    /\ UNCHANGED <<opts, svars, cvars, dvars, gvars, rvars>>

\* Encoder::add_heap; a fresh Heap is then built for the following sections.
AddHeap ==
    /\ ~sec.active
    /\ Len(regions) < MaxRegions
    /\ LET pc == HeapPageCount(heap_len, page_len)
       IN /\ output' = Pad(output + heap_len, HeapPadding(heap_len, page_len))
          /\ page_count' = page_count + pc
          /\ regions' = Append(regions, [kind |-> "heap", start |-> output,
                                         len |-> heap_len,
                                         desc |-> [page_offset |-> page_count,
                                                   page_count |-> pc]])
    /\ heap_len' = 0
    /\ last_op' = "add_heap"
    /\ UNCHANGED sec
    /\ UNCHANGED <<opts, svars, cvars, dvars, gvars, rvars>>

NextWriter ==
    \/ BeginSection
    \/ \E spill \in {0, MaxSpill} : Push(spill)
    \/ EndSection
    \/ AddHeap

----------------------------------------------------------------------------
(***************************************************************************)
(* Section geometry (section.rs)                                           *)
(***************************************************************************)
Min(a, b) == IF a < b THEN a ELSE b

\* Section::page_count
SectionPageCount(entry_count, P, S) ==
    LET entries_per_page == P \div S IN CeilingDiv(entry_count, entries_per_page)

\* Section::page_size
SectionPageSize(entry_count, P, S, i) ==
    LET entries_per_page == P \div S
        past_entry_count == entries_per_page * i
        rest_entry_count == entry_count - past_entry_count
    IN Min(entries_per_page, rest_entry_count)

(***************************************************************************)
(* Page search (reader/page.rs)                                            *)
(***************************************************************************)
\* The comparator f(&T, &C): the ordering of an entry relative to the key.
Cmp(t, k) == IF t < k THEN "Less" ELSE IF t > k THEN "Greater" ELSE "Equal"

\* slice::binary_search_by over the 0-based range [lo, hi): the index of a
\* matching element, or -1.
RECURSIVE SliceBinarySearch(_, _, _, _)
SliceBinarySearch(page, k, lo, hi) ==
    IF lo >= hi THEN -1
    ELSE LET mid == lo + ((hi - lo) \div 2)
             c == Cmp(page[mid + 1], k)
         IN IF c = "Equal" THEN mid
            ELSE IF c = "Less" THEN SliceBinarySearch(page, k, mid + 1, hi)
            ELSE SliceBinarySearch(page, k, lo, mid)

Ok(i) == [ok |-> TRUE, i |-> i]
Err(o) == [ok |-> FALSE, ord |-> o]

\* Page::binary_search_by_key with `is_ge` for `is_gt` on the first entry.
PageSearchFirstGe(page, k) ==
    IF page = <<>> THEN Err("Equal")
    ELSE IF Cmp(page[1], k) \in {"Greater", "Equal"} THEN Err("Greater")
    ELSE IF Cmp(page[Len(page)], k) = "Less" THEN Err("Less")
    ELSE LET i == SliceBinarySearch(page, k, 0, Len(page))
         IN IF i >= 0 THEN Ok(i) ELSE Err("Equal")

\* Page::binary_search_by_key with `is_le` for `is_lt` on the last entry.
PageSearchLastLe(page, k) ==
    IF page = <<>> THEN Err("Equal")
    ELSE IF Cmp(page[1], k) = "Greater" THEN Err("Greater")
    ELSE IF Cmp(page[Len(page)], k) \in {"Less", "Equal"} THEN Err("Less")
    ELSE LET i == SliceBinarySearch(page, k, 0, Len(page))
         IN IF i >= 0 THEN Ok(i) ELSE Err("Equal")

\* Page::binary_search_by_key
PageBinarySearchByKey(page, k) ==
    IF page = <<>> THEN Err("Equal")
    ELSE IF Cmp(page[1], k) = "Greater" THEN Err("Greater")
    ELSE IF Cmp(page[Len(page)], k) = "Less" THEN Err("Less")
    ELSE LET i == SliceBinarySearch(page, k, 0, Len(page))
         IN IF i >= 0 THEN Ok(i) ELSE Err("Equal")

(***************************************************************************)
(* Reader::binary_search_by_key (reader.rs)                                *)
(***************************************************************************)
\* The entries Reader::get_page decodes for page i of the section:
\* page_size(i) records starting at the page's first record.
GetPage(i) ==
    LET entries_per_page == page_len \div encoded_size
        size == SectionPageSize(Len(entries), page_len, encoded_size, i)
    IN SubSeq(entries, entries_per_page * i + 1, entries_per_page * i + size)

\* The strictly increasing sequence of the elements of a set of keys.
RECURSIVE SortedSeq(_)
SortedSeq(S) ==
    IF S = {} THEN <<>>
    ELSE LET m == CHOOSE x \in S : \A y \in S : x <= y
         IN <<m>> \o SortedSeq(S \ {m})

\* A section whose entries are strictly ordered by key, and a key to search.
InitSearch ==
    /\ InitOptions
    /\ WriterParked
    /\ CacheParked
    /\ CodecParked
    /\ GeometryParked
    /\ ReaderParked
    /\ \E S \in SUBSET (1..MaxKey) : entries = SortedSeq(S)
    /\ key \in 0..(MaxKey + 1)
    /\ s_pc = "call"
    /\ min = 0
    /\ max = 0
    /\ page_index = 0
    /\ result = None
    /\ iters = 0

\* reader.rs 207-210: the locals before the loop.
SearchBegin ==
    /\ s_pc = "call"
    /\ min' = 0
    /\ max' = SectionPageCount(Len(entries), page_len, encoded_size)
    /\ page_index' = max' \div 2
    /\ s_pc' = "loop"
    /\ UNCHANGED <<entries, key, result, iters>>
    /\ UNCHANGED <<opts, wvars, cvars, dvars, gvars, rvars>>

\* reader.rs 212-226: one iteration of the while loop, get_page succeeding.
SearchIter ==
    /\ s_pc = "loop"
    /\ page_index < max
    /\ iters < MaxIters
    /\ iters' = iters + 1
    /\ LET r == PageBinarySearchByKey(GetPage(page_index), key)
       IN IF r.ok
          THEN /\ result' = Some(page_index, r.i)
               /\ s_pc' = "done"
               /\ UNCHANGED <<min, max, page_index>>
          ELSE IF r.ord = "Equal"
          THEN /\ result' = None
               /\ s_pc' = "done"
               /\ UNCHANGED <<min, max, page_index>>
          ELSE /\ max' = IF r.ord = "Greater" THEN page_index ELSE max
               /\ min' = IF r.ord = "Less" THEN page_index ELSE min
               /\ page_index' = (min' + max') \div 2
               /\ UNCHANGED <<result, s_pc>>
    /\ UNCHANGED <<entries, key>>
    /\ UNCHANGED <<opts, wvars, cvars, dvars, gvars, rvars>>

\* reader.rs 213: get_page fails and `?` returns the error.
SearchPageError ==
    /\ s_pc = "loop"
    /\ page_index < max
    /\ result' = IoError
    /\ s_pc' = "done"
    /\ UNCHANGED <<entries, key, min, max, page_index, iters>>
    /\ UNCHANGED <<opts, wvars, cvars, dvars, gvars, rvars>>

\* reader.rs 212, 228: the loop condition fails and None is returned.
SearchExit ==
    /\ s_pc = "loop"
    /\ page_index >= max
    /\ result' = None
    /\ s_pc' = "done"
    /\ UNCHANGED <<entries, key, min, max, page_index, iters>>
    /\ UNCHANGED <<opts, wvars, cvars, dvars, gvars, rvars>>

NextSearch ==
    \/ SearchBegin
    \/ SearchIter
    \/ SearchPageError
    \/ SearchExit

SpecSearch == InitSearch /\ [][NextSearch]_vars

(***************************************************************************)
(* SpecPage: Page::binary_search_by_key on one decoded page.               *)
(***************************************************************************)
\* The key-ordered pages of at most n entries; entries may share a key.
OrderedPages(n) ==
    {p \in UNION {[1..l -> 1..MaxKey] : l \in 0..n} :
        \A i \in 1..(Len(p) - 1) : p[i] <= p[i + 1]}

\* A page of a section of one-byte records, and the key searched.
InitPage ==
    /\ page_len = MaxPageLen
    /\ first_page_offset = 0
    /\ encoded_size = 1
    /\ entries \in OrderedPages(page_len \div encoded_size)
    /\ key \in 0..(MaxKey + 1)
    /\ s_pc = "call"
    /\ min = 0
    /\ max = 0
    /\ page_index = 0
    /\ result = None
    /\ iters = 0
    /\ WriterParked
    /\ CacheParked
    /\ CodecParked
    /\ GeometryParked
    /\ ReaderParked

\* page.binary_search_by_key(context, f)
PageSearch ==
    /\ s_pc = "call"
    /\ result' = PageBinarySearchByKey(entries, key)
    /\ s_pc' = "done"
    /\ UNCHANGED <<entries, key, min, max, page_index, iters>>
    /\ UNCHANGED <<opts, wvars, cvars, dvars, gvars, rvars>>

NextPage == PageSearch

SpecPage == InitPage /\ [][NextPage]_vars

----------------------------------------------------------------------------
(***************************************************************************)
(* Page cache (reader/cache.rs) over sharded_slab::Pool<Page<T>>           *)
(***************************************************************************)
\* The entries the init closure of page k pushes: (k, 1) .. (k, InitLen).
FullPage(k) == [j \in 1..InitLen |-> <<k, j>>]

\* impl Clear for Page that keeps the entries.
ClearKeepsEntries(page) == page

\* impl Clear for Page: entries.clear()
ClearPage(page) == <<>>

\* Pool::clear: the slot is cleared and returned to the free list at once
\* when no guard is outstanding, otherwise when its last guard is dropped.
PoolClear(p, s) ==
    IF p[s].pins = 0
    THEN [p EXCEPT ![s] = [state |-> "free", page |-> ClearPage(p[s].page),
                           pins |-> 0, marked |-> FALSE]]
    ELSE [p EXCEPT ![s].marked = TRUE]

\* Drop of a pool::Ref guard.
\* A guard's drop that clears the slot as soon as no guard pins it.
PoolReleaseReclaims(p, s) ==
    IF p[s].pins = 1
    THEN [p EXCEPT ![s] = [state |-> "free", page |-> ClearPage(p[s].page),
                           pins |-> 0, marked |-> FALSE]]
    ELSE [p EXCEPT ![s].pins = @ - 1]

PoolRelease(p, s) ==
    IF p[s].pins = 1 /\ p[s].marked
    THEN [p EXCEPT ![s] = [state |-> "free", page |-> ClearPage(p[s].page),
                           pins |-> 0, marked |-> FALSE]]
    ELSE [p EXCEPT ![s].pins = @ - 1]

FreeSlots == {s \in Slots : pool[s].state = "free"}

\* The number of Refs held on the Arcs of S.
RECURSIVE CountRefs(_)
CountRefs(S) ==
    IF S = {} THEN 0
    ELSE LET a == CHOOSE x \in S : TRUE
         IN CopiesIn(a, arcs) * BagCardinality(a.refs) + CountRefs(S \ {a})

\* The Arcs once b stands where (one copy of) a stood.
Replace(a, b) == (arcs (-) SetToBag({a})) (+) SetToBag({b})

\* The Refs on an Arc once view w stands where (one copy of) v stood.
Rebind(held, v, w) == (held (-) SetToBag({v})) (+) SetToBag({w})
Smallest(S) == CHOOSE x \in S : \A y \in S : x <= y
InFlight == {t \in Threads : th[t].pc # "idle"}
\* A handle can still be created beside those the calls in flight may return.
RefAvailable == CountRefs(BagToSet(arcs)) + Cardinality(InFlight) < MaxRefs

\* Cache::default
InitCache ==
    /\ page_len = 2
    /\ encoded_size = 1
    /\ first_page_offset = 0
    /\ WriterParked
    /\ SearchParked
    /\ CacheParked
    /\ CodecParked
    /\ GeometryParked
    /\ ReaderParked

\* A thread enters Cache::get or Cache::get_or_insert for page k.
Call(t, op, k) ==
    /\ th[t].pc = "idle"
    /\ RefAvailable
    /\ th' = [th EXCEPT ![t] = [IdleThread EXCEPT !.pc = "lookup", !.op = op,
                                                  !.key = k]]
    /\ UNCHANGED <<index, pool, arcs>>
    /\ UNCHANGED <<opts, wvars, svars, dvars, gvars, rvars>>

\* Ref::new(pool.get(s).unwrap()): a guard on slot s behind a fresh Arc.
\* Gives the new pool and arcs.
NewRef(s, k) ==
    [pool |-> [pool EXCEPT ![s].pins = @ + 1],
     arcs |-> arcs (+) SetToBag({[slot |-> s, key |-> k, strong |-> 1,
                                  refs |-> SetToBag({View("page", 0)})]})]

\* Cache::get_or_insert calling Cache::set although the index holds the key.
CacheHitSetsAgain(t) ==
    /\ th[t].pc = "lookup"
    /\ index[th[t].key] # NoSlot
    /\ th' = [th EXCEPT ![t].pc = "create"]
    /\ UNCHANGED <<index, pool, arcs>>
    /\ UNCHANGED <<opts, wvars, svars, dvars, gvars, rvars>>

\* Cache::get: index_of, then pool.get(i).unwrap() on a hit.
CacheHit(t) ==
    /\ th[t].pc = "lookup"
    /\ index[th[t].key] # NoSlot
    /\ LET s == index[th[t].key] IN
       IF pool[s].state = "present"
       THEN LET r == NewRef(s, th[t].key) IN
            /\ pool' = r.pool
            /\ arcs' = r.arcs
            /\ th' = [th EXCEPT ![t] = Returned([kind |-> "ref", via |-> th[t].op])]
       ELSE /\ th' = [th EXCEPT ![t] = Returned([kind |-> "panic"])]
            /\ UNCHANGED <<pool, arcs>>
    /\ UNCHANGED index
    /\ UNCHANGED <<opts, wvars, svars, dvars, gvars, rvars>>

\* Cache::get returns None; get_or_insert goes on to Cache::set.
CacheMiss(t) ==
    /\ th[t].pc = "lookup"
    /\ index[th[t].key] = NoSlot
    /\ th' = IF th[t].op = "get"
             THEN [th EXCEPT ![t] = Returned([kind |-> "None"])]
             ELSE [th EXCEPT ![t].pc = "create"]
    /\ UNCHANGED <<index, pool, arcs>>
    /\ UNCHANGED <<opts, wvars, svars, dvars, gvars, rvars>>

\* Cache::set, pool.create_with: a free slot is taken and the init closure
\* starts on its page.
SetCreate(t) ==
    /\ th[t].pc = "create"
    /\ FreeSlots # {}
    /\ LET s == Smallest(FreeSlots) IN
       /\ pool' = [pool EXCEPT ![s].state = "creating"]
       /\ th' = [th EXCEPT ![t].pc = "init", ![t].slot = s, ![t].n = 0]
    /\ UNCHANGED <<index, arcs>>
    /\ UNCHANGED <<opts, wvars, svars, dvars, gvars, rvars>>

\* Cache::set recycling a present slot that no guard pins when the pool has
\* no free slot.
SetEvicts(t) ==
    /\ th[t].pc = "create"
    /\ FreeSlots = {}
    /\ LET unpinned == {s \in Slots : pool[s].state = "present" /\ pool[s].pins = 0} IN
       IF unpinned = {}
       THEN /\ th' = [th EXCEPT ![t] = Returned([kind |-> "OutOfMemory"])]
            /\ UNCHANGED pool
       ELSE LET s == Smallest(unpinned) IN
            /\ pool' = [pool EXCEPT ![s] = [FreeSlot EXCEPT !.state = "creating"]]
            /\ th' = [th EXCEPT ![t].pc = "init", ![t].slot = s, ![t].n = 0]
    /\ UNCHANGED <<index, arcs>>
    /\ UNCHANGED <<opts, wvars, svars, dvars, gvars, rvars>>

\* Cache::set, pool.create_with returns None: Error::OutOfMemory.
SetOutOfMemory(t) ==
    /\ th[t].pc = "create"
    /\ FreeSlots = {}
    /\ th' = [th EXCEPT ![t] = Returned([kind |-> "OutOfMemory"])]
    /\ UNCHANGED <<index, pool, arcs>>
    /\ UNCHANGED <<opts, wvars, svars, dvars, gvars, rvars>>

\* The init closure decodes one more entry and pushes it (Page::push).
InitPush(t) ==
    /\ th[t].pc = "init"
    /\ th[t].n < InitLen
    /\ pool' = [pool EXCEPT ![th[t].slot].page =
                   Append(@, <<th[t].key, th[t].n + 1>>)]
    /\ th' = [th EXCEPT ![t].n = @ + 1]
    /\ UNCHANGED <<index, arcs>>
    /\ UNCHANGED <<opts, wvars, svars, dvars, gvars, rvars>>

\* The init closure returns Ok(()) and create_with returns Some(i).
InitOk(t) ==
    /\ th[t].pc = "init"
    /\ th[t].n = InitLen
    /\ pool' = [pool EXCEPT ![th[t].slot].state = "present"]
    /\ th' = [th EXCEPT ![t].pc = "created", ![t].res = "Ok"]
    /\ UNCHANGED <<index, arcs>>
    /\ UNCHANGED <<opts, wvars, svars, dvars, gvars, rvars>>

\* A decode fails: the init closure returns Err and create_with Some(i).
InitErr(t) ==
    /\ th[t].pc = "init"
    /\ th[t].n < InitLen
    /\ pool' = [pool EXCEPT ![th[t].slot].state = "present"]
    /\ th' = [th EXCEPT ![t].pc = "created", ![t].res = "Err"]
    /\ UNCHANGED <<index, arcs>>
    /\ UNCHANGED <<opts, wvars, svars, dvars, gvars, rvars>>

\* Cache::set inserting into the index whatever the init closure returned.
SetPublishAnyResult(t) ==
    /\ th[t].pc = "created"
    /\ LET r == NewRef(th[t].slot, th[t].key) IN
       /\ index' = [index EXCEPT ![th[t].key] = th[t].slot]
       /\ pool' = r.pool
       /\ arcs' = r.arcs
       /\ th' = [th EXCEPT ![t] = Returned([kind |-> "ref", via |-> "set"])]
    /\ UNCHANGED <<opts, wvars, svars, dvars, gvars, rvars>>

\* Cache::set, result Ok: index.write().insert, Ref::new(pool.get(i).unwrap()).
SetPublish(t) ==
    /\ th[t].pc = "created"
    /\ th[t].res = "Ok"
    /\ LET r == NewRef(th[t].slot, th[t].key) IN
       /\ index' = [index EXCEPT ![th[t].key] = th[t].slot]
       /\ pool' = r.pool
       /\ arcs' = r.arcs
       /\ th' = [th EXCEPT ![t] = Returned([kind |-> "ref", via |-> "set"])]
    /\ UNCHANGED <<opts, wvars, svars, dvars, gvars, rvars>>

\* Cache::set, result Err(e): pool.clear(i), Err(e).
SetFailed(t) ==
    /\ th[t].pc = "created"
    /\ th[t].res = "Err"
    /\ pool' = PoolClear(pool, th[t].slot)
    /\ th' = [th EXCEPT ![t] = Returned([kind |-> "Err", key |-> th[t].key,
                                          partial |-> th[t].n > 0])]
    /\ UNCHANGED <<index, arcs>>
    /\ UNCHANGED <<opts, wvars, svars, dvars, gvars, rvars>>

\* Ref::map(GetEntryBinder::new(i)): page.get(i).unwrap()
MapEntry(a, v, i) ==
    /\ v.view = "page"
    /\ i < Len(pool[a.slot].page)
    /\ arcs' = Replace(a, [a EXCEPT !.refs = Rebind(@, v, View("entry", i))])
    /\ UNCHANGED <<index, pool, th>>
    /\ UNCHANGED <<opts, wvars, svars, dvars, gvars, rvars>>

\* Ref::map(IterBinder::new()): page.iter()
MapIter(a, v) ==
    /\ v.view = "page"
    /\ arcs' = Replace(a, [a EXCEPT !.refs = Rebind(@, v, View("iter", 0))])
    /\ UNCHANGED <<index, pool, th>>
    /\ UNCHANGED <<opts, wvars, svars, dvars, gvars, rvars>>

\* Ref::cloned / Ref::copied: map(CloneBinder), the Arc moves into the result.
Cloned(a, v) ==
    /\ v.view \in {"entry", "item"}
    /\ arcs' = Replace(a, [a EXCEPT !.refs = Rebind(@, v, View("owned", v.i))])
    /\ UNCHANGED <<index, pool, th>>
    /\ UNCHANGED <<opts, wvars, svars, dvars, gvars, rvars>>

\* A handle that shares the Arc without counting itself.
ArcShareUncounted(strong) == strong

\* The Arc count after Arc::clone.
ArcClone(strong) == strong + 1

\* impl Iterator for Ref, next(): the item takes self.t.clone().
IterNext(a, v) ==
    /\ v.view = "iter"
    /\ v.i < Len(pool[a.slot].page)
    /\ RefAvailable
    /\ arcs' = Replace(a, [a EXCEPT
                   !.strong = ArcClone(@),
                   !.refs = Rebind(@, v, View("iter", v.i + 1))
                                (+) SetToBag({View("item", v.i)})])
    /\ UNCHANGED <<index, pool, th>>
    /\ UNCHANGED <<opts, wvars, svars, dvars, gvars, rvars>>

\* #[educe(Clone)] on Ref: t.clone(), u.clone()
CloneRef(a, v) ==
    /\ RefAvailable
    /\ arcs' = Replace(a, [a EXCEPT !.strong = ArcClone(@),
                                     !.refs = @ (+) SetToBag({v})])
    /\ UNCHANGED <<index, pool, th>>
    /\ UNCHANGED <<opts, wvars, svars, dvars, gvars, rvars>>

\* Drop of a Ref: the Arc count falls, and the pool guard is dropped with the
\* last Arc.
DropRef(a, v) ==
    /\ LET left == [a EXCEPT !.strong = @ - 1,
                             !.refs = @ (-) SetToBag({v})] IN
       /\ arcs' = IF BagToSet(left.refs) = {}
                  THEN arcs (-) SetToBag({a})
                  ELSE Replace(a, left)
       /\ pool' = IF a.strong = 1
                  THEN PoolRelease(pool, a.slot)
                  ELSE pool
    /\ UNCHANGED <<index, th>>
    /\ UNCHANGED <<opts, wvars, svars, dvars, gvars, rvars>>

\* Threads calling into one cache and dropping the handles they get.
NextCache ==
    \/ \E t \in Threads, op \in {"get", "get_or_insert"}, k \in CacheKeys :
           Call(t, op, k)
    \/ \E t \in Threads : CacheHit(t)
    \/ \E t \in Threads : CacheMiss(t)
    \/ \E t \in Threads : SetCreate(t)
    \/ \E t \in Threads : SetOutOfMemory(t)
    \/ \E t \in Threads : InitPush(t)
    \/ \E t \in Threads : InitOk(t)
    \/ \E t \in Threads : InitErr(t)
    \/ \E t \in Threads : SetPublish(t)
    \/ \E t \in Threads : SetFailed(t)
    \/ \E a \in BagToSet(arcs) : \E v \in BagToSet(a.refs) : DropRef(a, v)

\* One thread calling into the cache, and a client that maps, clones, steps
\* and drops the handles. With a single caller the pool, which has more
\* slots than there are pages, is never exhausted.
NextRef ==
    \/ \E op \in {"get", "get_or_insert"}, k \in CacheKeys : Call(1, op, k)
    \/ CacheHit(1)
    \/ CacheMiss(1)
    \/ SetCreate(1)
    \/ InitPush(1)
    \/ InitOk(1)
    \/ InitErr(1)
    \/ SetPublish(1)
    \/ SetFailed(1)
    \/ \E a \in BagToSet(arcs) : \E v \in BagToSet(a.refs) :
           \E i \in 0..(InitLen - 1) : MapEntry(a, v, i)
    \/ \E a \in BagToSet(arcs) : \E v \in BagToSet(a.refs) : MapIter(a, v)
    \/ \E a \in BagToSet(arcs) : \E v \in BagToSet(a.refs) : Cloned(a, v)
    \/ \E a \in BagToSet(arcs) : \E v \in BagToSet(a.refs) : IterNext(a, v)
    \/ \E a \in BagToSet(arcs) : \E v \in BagToSet(a.refs) : CloneRef(a, v)
    \/ \E a \in BagToSet(arcs) : \E v \in BagToSet(a.refs) : DropRef(a, v)

SpecCache == InitCache /\ [][NextCache]_vars

SpecRef == InitCache /\ [][NextRef]_vars

InitWriter ==
    /\ InitOptions /\ InitEncoder
    /\ SearchParked /\ CacheParked /\ CodecParked /\ GeometryParked
    /\ ReaderParked

SpecWriter == InitWriter /\ [][NextWriter]_vars

----------------------------------------------------------------------------
(***************************************************************************)
(* Record codec: encode.rs, decode.rs, heap.rs and the impls generated by  *)
(* #[derive(Paged)] (paged-derive/src/generate.rs).                        *)
(***************************************************************************)
\* Record types: integers of w bytes, Vec<T>, (T1, T2) and derived enums
\* (one sequence of field types per variant, in declaration order).
U8 == [kind |-> "int", w |-> 1]
U16 == [kind |-> "int", w |-> 2]
VecOf(t) == [kind |-> "vec", elem |-> t]
PairOf(a, b) == [kind |-> "pair", a |-> a, b |-> b]
EnumOf(vs) == [kind |-> "enum", variants |-> vs]

\* The record types the model encodes:
\*   #[derive(Paged)] enum Enum { A, B(u8), C(u8, u16) }
\*   Vec<u16>
\*   (u8, u16)
TypeOf(name) ==
    CASE name = "Enum" -> EnumOf(<< <<>>, <<U8>>, <<U8, U16>> >>)
      [] name = "Vec" -> VecOf(U16)
      [] name = "Pair" -> PairOf(U8, U16)
      [] name = "U16" -> U16

\* utils::max
Max(a, b) == IF a > b THEN a ELSE b

\* EncodeSized::ENCODED_SIZE, and fields_size of the derive macro
RECURSIVE EncodedSize(_)
RECURSIVE FieldsSize(_)
RECURSIVE MaxFieldsSize(_)
FieldsSize(fs) ==
    IF Len(fs) = 0 THEN 0 ELSE EncodedSize(Head(fs)) + FieldsSize(Tail(fs))

MaxFieldsSize(vs) ==
    IF Len(vs) = 0 THEN 0
    ELSE Max(MaxFieldsSize(SubSeq(vs, 1, Len(vs) - 1)), FieldsSize(vs[Len(vs)]))

EncodedSize(t) ==
    CASE t.kind = "int" -> t.w
      [] t.kind = "vec" -> 4 + 4
      [] t.kind = "pair" -> EncodedSize(t.a) + EncodedSize(t.b)
      [] t.kind = "enum" -> 1 + MaxFieldsSize(t.variants)

\* to_be_bytes of an integer of w bytes, and from_be_bytes
BE(v, w) == [i \in 1..w |-> (v \div (256 ^ (w - i))) % 256]

RECURSIVE FromBE(_)
FromBE(b) ==
    IF Len(b) = 0 THEN 0
    ELSE FromBE(SubSeq(b, 1, Len(b) - 1)) * 256 + b[Len(b)]

\* What an encode call did: the bytes it wrote to the output, the heap
\* after it and the length it returned.
Encoded(b, h, n) == [bytes |-> b, heap |-> h, len |-> n]

\* Encode::encode (the flat path); h is not touched.
RECURSIVE Encode(_, _, _)
RECURSIVE EncodeFields(_, _, _)
RECURSIVE EncodeSlice(_, _, _)

\* encode_fields of the derive macro: the fields in order.
EncodeFields(fs, vs, h) ==
    IF Len(fs) = 0 THEN Encoded(<<>>, h, 0)
    ELSE LET a == Encode(Head(fs), Head(vs), h)
             r == EncodeFields(Tail(fs), Tail(vs), h)
         IN Encoded(a.bytes \o r.bytes, h, a.len + r.len)

\* impl Encode for [T]
EncodeSlice(t, vs, h) ==
    IF Len(vs) = 0 THEN Encoded(<<>>, h, 0)
    ELSE LET a == Encode(t, Head(vs), h)
             r == EncodeSlice(t, Tail(vs), h)
         IN Encoded(a.bytes \o r.bytes, h, a.len + r.len)

Encode(t, v, h) ==
    CASE t.kind = "int" -> Encoded(BE(v, t.w), h, t.w)
      [] t.kind = "pair" ->
           LET a == Encode(t.a, v[1], h)
               b == Encode(t.b, v[2], h)
           IN Encoded(a.bytes \o b.bytes, h, a.len + b.len)
      [] t.kind = "enum" ->
           LET f == EncodeFields(t.variants[v.variant + 1], v.fields, h)
           IN Encoded(<<v.variant>> \o f.bytes, h, EncodedSize(t))

\* EncodeOnHeap::encode_on_heap
RECURSIVE EncodeOnHeap(_, _, _)
RECURSIVE EncodeFieldsToHeap(_, _, _)

\* encode_fields_to_heap of the derive macro
EncodeFieldsToHeap(fs, vs, h) ==
    IF Len(fs) = 0 THEN Encoded(<<>>, h, 0)
    ELSE LET a == EncodeOnHeap(Head(fs), Head(vs), h)
             r == EncodeFieldsToHeap(Tail(fs), Tail(vs), a.heap)
         IN Encoded(a.bytes \o r.bytes, r.heap, a.len + r.len)

EncodeOnHeap(t, v, h) ==
    CASE t.kind = "int" -> Encoded(BE(v, t.w), h, t.w)
      [] t.kind = "vec" ->
           \* heap.insert(self.as_slice()).sized(self.len()), entry.encode
           LET e == EncodeSlice(t.elem, v, h)
           IN Encoded(BE(Len(h), 4) \o BE(Len(v), 4), h \o e.bytes, 4 + 4)
      [] t.kind = "pair" ->
           \* both calls are on self.0
           LET a == EncodeOnHeap(t.a, v[1], h)
               b == EncodeOnHeap(t.a, v[1], a.heap)
           IN Encoded(a.bytes \o b.bytes, b.heap, a.len + b.len)
      [] t.kind = "enum" ->
           LET f == EncodeFieldsToHeap(t.variants[v.variant + 1], v.fields, h)
           IN Encoded(<<v.variant>> \o f.bytes, f.heap, EncodedSize(t))

\* An io::Result of a decode at the position the input was left at.
Decoded(v, p) == [ok |-> TRUE, val |-> v, pos |-> p]
Failed(e, p) == [ok |-> FALSE, err |-> e, pos |-> p]

\* io::Read::read_exact of n bytes of input s through impl io::Read for
\* Cursor, at cursor p: current_offset grows by the bytes read.
ReadExact(s, p, n) ==
    IF p.at + n > Len(s) THEN Failed("UnexpectedEof", p)
    ELSE Decoded(SubSeq(s, p.at + 1, p.at + n),
                 At(p.at + n, p.current_offset + n))

\* Decode::decode (the flat path)
RECURSIVE Decode(_, _, _)
RECURSIVE DecodeFields(_, _, _)

\* DecodeFields of the derive macro: the fields in order.
DecodeFields(fs, s, p) ==
    IF Len(fs) = 0 THEN Decoded(<<>>, p)
    ELSE LET a == Decode(Head(fs), s, p) IN
         IF ~a.ok THEN a
         ELSE LET r == DecodeFields(Tail(fs), s, a.pos) IN
              IF ~r.ok THEN r ELSE Decoded(<<a.val>> \o r.val, r.pos)

Decode(t, s, p) ==
    CASE t.kind = "int" ->
           LET r == ReadExact(s, p, t.w) IN
           IF r.ok THEN Decoded(FromBE(r.val), r.pos) ELSE r
      [] t.kind = "pair" ->
           LET a == Decode(t.a, s, p) IN
           IF ~a.ok THEN a
           ELSE LET b == Decode(t.b, s, a.pos) IN
                IF ~b.ok THEN b ELSE Decoded(<<a.val, b.val>>, b.pos)
      [] t.kind = "enum" ->
           LET d == Decode(U8, s, p) IN
           IF ~d.ok THEN d
           ELSE IF d.val >= Len(t.variants) THEN Failed("InvalidData", d.pos)
           ELSE LET fs == t.variants[d.val + 1]
                    f == DecodeFields(fs, s, d.pos)
                IN IF ~f.ok THEN f
                   ELSE LET padding == EncodedSize(t) - FieldsSize(fs)
                            r == ReadExact(s, f.pos, padding)
                        IN IF ~r.ok THEN r
                           ELSE Decoded([variant |-> d.val, fields |-> f.val],
                                        r.pos)

\* Cursor::decode_from_heap: seek to the heap offset, T::decode, seek to
\* the saved current_offset.
CursorDecodeFromHeap(t, s, p, base, offset) ==
    LET saved_offset == p.current_offset
        r == Decode(t, s, Seek(base + offset))
    IN IF r.ok THEN Decoded(r.val, Seek(saved_offset)) ELSE r

\* The loop of Vec's decode_from_heap: n elements, each decoded by
\* input.decode_from_heap(context, heap, entry.offset).
RECURSIVE DecodeElements(_, _, _, _, _, _)
DecodeElements(t, s, p, base, offset, n) ==
    IF n = 0 THEN Decoded(<<>>, p)
    ELSE LET a == CursorDecodeFromHeap(t, s, p, base, offset) IN
         IF ~a.ok THEN a
         ELSE LET r == DecodeElements(t, s, a.pos, base, offset, n - 1) IN
              IF ~r.ok THEN r ELSE Decoded(<<a.val>> \o r.val, r.pos)

\* heap::Entry::decode
DecodeEntry(s, p) ==
    LET o == Decode([kind |-> "int", w |-> 4], s, p) IN
    IF ~o.ok THEN o
    ELSE LET n == Decode([kind |-> "int", w |-> 4], s, o.pos) IN
         IF ~n.ok THEN n
         ELSE Decoded([offset |-> o.val, len |-> n.val], n.pos)

\* DecodeFromHeap::decode_from_heap, the heap section beginning at input
\* position base.
RECURSIVE DecodeFromHeap(_, _, _, _)
RECURSIVE DecodeFieldsFromHeap(_, _, _, _)

\* DecodeFieldsFromHeap of the derive macro
DecodeFieldsFromHeap(fs, s, p, base) ==
    IF Len(fs) = 0 THEN Decoded(<<>>, p)
    ELSE LET a == DecodeFromHeap(Head(fs), s, p, base) IN
         IF ~a.ok THEN a
         ELSE LET r == DecodeFieldsFromHeap(Tail(fs), s, a.pos, base) IN
              IF ~r.ok THEN r ELSE Decoded(<<a.val>> \o r.val, r.pos)

DecodeFromHeap(t, s, p, base) ==
    CASE t.kind = "int" -> Decode(t, s, p)
      [] t.kind = "vec" ->
           LET e == DecodeEntry(s, p) IN
           IF ~e.ok THEN e
           ELSE DecodeElements(t.elem, s, e.pos, base, e.val.offset, e.val.len)
      [] t.kind = "pair" ->
           LET a == DecodeFromHeap(t.a, s, p, base) IN
           IF ~a.ok THEN a
           ELSE LET b == DecodeFromHeap(t.b, s, a.pos, base) IN
                IF ~b.ok THEN b ELSE Decoded(<<a.val, b.val>>, b.pos)
      [] t.kind = "enum" ->
           LET d == Decode(U8, s, p) IN
           IF ~d.ok THEN d
           ELSE IF d.val >= Len(t.variants) THEN Failed("InvalidData", d.pos)
           ELSE LET fs == t.variants[d.val + 1]
                    f == DecodeFieldsFromHeap(fs, s, d.pos, base)
                IN IF ~f.ok THEN f
                   ELSE \* input.pad(ENCODED_SIZE - variant_size)
                        Decoded([variant |-> d.val, fields |-> f.val],
                                CursorPad(f.pos,
                                          EncodedSize(t) - FieldsSize(fs)))

(***************************************************************************)
(* Records encoded one after the other from the first byte of a page, the  *)
(* heap added behind the page, and the records decoded back as             *)
(* Reader::get_page decodes a page.                                        *)
(***************************************************************************)
CodecTypes == {"Enum", "Vec", "Pair"}
U8Vals == {0, 7}
U16Vals == {1, 258}

\* The values of a record type.
ValuesOf(name) ==
    CASE name = "Enum" ->
           {[variant |-> 0, fields |-> <<>>]}
           \cup {[variant |-> 1, fields |-> <<x>>] : x \in U8Vals}
           \cup {[variant |-> 2, fields |-> <<x, y>>] : x \in U8Vals, y \in U16Vals}
      [] name = "Vec" -> UNION {[1..n -> U16Vals] : n \in 0..MaxVecLen}
      [] name = "Pair" -> U8Vals \X U16Vals

\* Vec<T> has no flat Encode.
PathsOf(name) == IF name = "Vec" THEN {"heap"} ELSE {"flat", "heap"}

\* The bytes of the page behind the heap: records of another section.
Trailer == [i \in 1..CodecPageLen |-> 255]

Zeros(n) == [i \in 1..n |-> 0]

InitCodec ==
    /\ page_len = CodecPageLen
    /\ first_page_offset = 0
    /\ ty \in CodecTypes
    /\ encoded_size = EncodedSize(TypeOf(ty))
    /\ path \in PathsOf(ty)
    /\ recs \in UNION {[1..n -> ValuesOf(ty)] : n \in 1..MaxRecs}
    /\ c_pc = "encode"
    /\ out = <<>>
    /\ heap = <<>>
    /\ lens = <<>>
    /\ stream = <<>>
    /\ hsec = [page_offset |-> 0, page_count |-> 0]
    /\ input_pos = Seek(0)
    /\ decoded = <<>>
    /\ tampered = FALSE
    /\ WriterParked
    /\ SearchParked
    /\ CacheParked
    /\ GeometryParked
    /\ ReaderParked

\* value.encode(context, output) / value.encode_on_heap(context, heap, output)
\* of the next record, as section::Encoder::push calls it.
EncodeNext ==
    /\ c_pc = "encode"
    /\ Len(lens) < Len(recs)
    /\ LET v == recs[Len(lens) + 1]
           e == IF path = "flat" THEN Encode(TypeOf(ty), v, heap)
                ELSE EncodeOnHeap(TypeOf(ty), v, heap)
       IN /\ out' = out \o e.bytes
          /\ heap' = e.heap
          /\ lens' = Append(lens, [wrote |-> Len(e.bytes), len |-> e.len])
    /\ UNCHANGED <<ty, path, recs, c_pc, stream, hsec, input_pos, decoded, tampered>>
    /\ UNCHANGED <<opts, wvars, svars, cvars, gvars, rvars>>

\* Encoder::add_heap behind the records' page (the skipped bytes read as
\* zeros), a page of another section behind the heap, and cursor.seek to
\* the first byte of the records' page.
Layout ==
    /\ c_pc = "encode"
    /\ Len(lens) = Len(recs)
    /\ Len(out) <= page_len
    /\ stream' = out \o Zeros(page_len - Len(out))
                     \o heap \o Zeros(HeapPadding(Len(heap), page_len))
                     \o Trailer
    /\ hsec' = [page_offset |-> 1,
                page_count |-> HeapPageCount(Len(heap), page_len)]
    /\ input_pos' = Seek(first_page_offset)
    /\ c_pc' = "decode"
    /\ UNCHANGED <<ty, path, recs, out, heap, lens, decoded, tampered>>
    /\ UNCHANGED <<opts, wvars, svars, cvars, gvars, rvars>>

\* The input is not what the encoder wrote: byte i of the first record on
\* the page is b.
Corrupt(i, b) ==
    /\ c_pc = "decode"
    /\ decoded = <<>>
    /\ ~tampered
    /\ i <= Len(out)
    /\ stream[i] # b
    /\ stream' = [stream EXCEPT ![i] = b]
    /\ tampered' = TRUE
    /\ UNCHANGED <<ty, path, recs, c_pc, out, heap, lens, hsec, input_pos, decoded>>
    /\ UNCHANGED <<opts, wvars, svars, cvars, gvars, rvars>>

\* T::decode(input, context) / T::decode_from_heap(&mut cursor, context,
\* heap) of the next record: one iteration of the loop of Reader::get_page.
DecodeNext ==
    /\ c_pc = "decode"
    /\ LET base == first_page_offset + hsec.page_offset * page_len
           r == IF path = "flat" THEN Decode(TypeOf(ty), stream, input_pos)
                ELSE DecodeFromHeap(TypeOf(ty), stream, input_pos, base)
       IN /\ decoded' = Append(decoded, [start |-> input_pos, res |-> r])
          /\ input_pos' = r.pos
          /\ c_pc' = IF ~r.ok \/ Len(decoded) + 1 = Len(recs)
                     THEN "done" ELSE "decode"
    /\ UNCHANGED <<ty, path, recs, out, heap, lens, stream, hsec, tampered>>
    /\ UNCHANGED <<opts, wvars, svars, cvars, gvars, rvars>>

NextCodec ==
    \/ EncodeNext
    \/ Layout
    \/ \E i \in TamperAt, b \in CorruptBytes : Corrupt(i, b)
    \/ DecodeNext

SpecCodec == InitCodec /\ [][NextCodec]_vars

----------------------------------------------------------------------------
(***************************************************************************)
(* Section geometry in u32 arithmetic (section.rs, utils.rs).  The width   *)
(* of u32 is scaled to WordBits bits; an operation whose result does not   *)
(* fit panics in a build with overflow checks and wraps in one without.    *)
(***************************************************************************)
Word == 2 ^ WordBits
U32Max == Word - 1

\* The outcome of a u32 computation.
Val(x, w) == [kind |-> "ok", val |-> x, wrapped |-> w]
Panic(why) == [kind |-> "panic", why |-> why]

\* A u32 + - * whose mathematical result is x, after operands r.
Arith(build, r, x) ==
    IF r.kind # "ok" THEN r
    ELSE IF x \in 0..U32Max THEN Val(x, r.wrapped)
    ELSE IF build = "checked" THEN Panic("overflow")
    ELSE Val(x % Word, TRUE)

\* A u32 / or % by b whose result is x.
Divide(r, b, x) ==
    IF r.kind # "ok" THEN r
    ELSE IF b = 0 THEN Panic("division by zero")
    ELSE Val(x, r.wrapped)

\* impl CeilingDiv for u32: (self + other - 1) / other
U32CeilingDiv(build, a, b) ==
    LET sum == Arith(build, Val(a, FALSE), a + b)
        dec == IF sum.kind = "ok" THEN Arith(build, sum, sum.val - 1) ELSE sum
    IN IF dec.kind = "ok" THEN Divide(dec, b, IF b = 0 THEN 0 ELSE dec.val \div b)
       ELSE dec

\* let entries_per_page = page_len / T::ENCODED_SIZE
EntriesPerPage(P, S) == P \div S

\* Section::page_count
U32PageCount(build, entry_count, P, S) ==
    U32CeilingDiv(build, entry_count, EntriesPerPage(P, S))

\* Section::page_size
U32PageSize(build, entry_count, P, S, i) ==
    LET entries_per_page == EntriesPerPage(P, S)
        past_entry_count == Arith(build, Val(i, FALSE), entries_per_page * i)
        rest_entry_count ==
            IF past_entry_count.kind = "ok"
            THEN Arith(build, past_entry_count, entry_count - past_entry_count.val)
            ELSE past_entry_count
    IN IF rest_entry_count.kind = "ok"
       THEN Val(Min(entries_per_page, rest_entry_count.val), rest_entry_count.wrapped)
       ELSE rest_entry_count

\* Section::page_of_entry with the quotient and the remainder exchanged.
PageOfEntrySwapped(P, S, i) ==
    LET entries_per_page == EntriesPerPage(P, S) IN
    IF entries_per_page = 0 THEN Panic("division by zero")
    ELSE Val(<<i % entries_per_page, i \div entries_per_page>>, FALSE)

\* Section::page_of_entry
U32PageOfEntry(P, S, i) ==
    LET entries_per_page == EntriesPerPage(P, S) IN
    IF entries_per_page = 0 THEN Panic("division by zero")
    ELSE Val(<<i \div entries_per_page, i % entries_per_page>>, FALSE)

\* Section::offset_of_page: (self.page_offset + i) * page_len
U32OffsetOfPage(build, page_offset, P, i) ==
    LET sum == Arith(build, Val(i, FALSE), page_offset + i)
    IN IF sum.kind = "ok" THEN Arith(build, sum, sum.val * P) ELSE sum

\* A section descriptor of any entry count, a page length and a record
\* size (also one larger than the page), an argument, and the build.
InitGeometry ==
    /\ page_len \in 1..MaxGeoPageLen
    /\ encoded_size \in 1..(MaxGeoPageLen + 1)
    /\ first_page_offset = 0
    /\ g_build \in {"checked", "wrapping"}
    /\ g_entry_count \in 0..U32Max
    /\ g_arg \in 0..U32Max
    /\ g_op = "none"
    /\ g_result = Val(0, FALSE)
    /\ WriterParked
    /\ SearchParked
    /\ CacheParked
    /\ CodecParked
    /\ ReaderParked

\* section.page_count(page_len)
CallPageCount ==
    /\ g_op' = "page_count"
    /\ g_result' = U32PageCount(g_build, g_entry_count, page_len, encoded_size)
    /\ UNCHANGED <<g_build, g_entry_count, g_arg>>
    /\ UNCHANGED <<opts, wvars, svars, cvars, dvars, rvars>>

\* section.page_size(page_len, g_arg)
CallPageSize ==
    /\ g_op' = "page_size"
    /\ g_result' = U32PageSize(g_build, g_entry_count, page_len, encoded_size, g_arg)
    /\ UNCHANGED <<g_build, g_entry_count, g_arg>>
    /\ UNCHANGED <<opts, wvars, svars, cvars, dvars, rvars>>

\* section.page_of_entry(page_len, g_arg)
CallPageOfEntry ==
    /\ g_op' = "page_of_entry"
    /\ g_result' = U32PageOfEntry(page_len, encoded_size, g_arg)
    /\ UNCHANGED <<g_build, g_entry_count, g_arg>>
    /\ UNCHANGED <<opts, wvars, svars, cvars, dvars, rvars>>

\* Reader::get_page(section, .., g_arg) up to the decode loop, for a section
\* at page 0: the offset its init closure seeks to and the number of
\* records it decodes.  No page index is refused.
CallGetPage ==
    /\ g_op' = "get_page"
    /\ g_result' =
          LET offset == U32OffsetOfPage(g_build, 0, page_len, g_arg)
              entry_count == U32PageSize(g_build, g_entry_count, page_len,
                                         encoded_size, g_arg)
          IN IF offset.kind # "ok" THEN offset ELSE entry_count
    /\ UNCHANGED <<g_build, g_entry_count, g_arg>>
    /\ UNCHANGED <<opts, wvars, svars, cvars, dvars, rvars>>

NextGeometry ==
    \/ CallPageCount
    \/ CallPageSize
    \/ CallPageOfEntry
    \/ CallGetPage

SpecGeometry == InitGeometry /\ [][NextGeometry]_vars

-----------------------------------------------------------------------------
(***************************************************************************)
(* SpecAddHeap: Encoder::add_heap in the width of the code.  A Heap        *)
(* reports its length and its page count as u32, and the page count goes   *)
(* through the u32 ceiling_div.                                            *)
(***************************************************************************)

\* heap.page_count(page_len): self.len().ceiling_div(page_len)
U32HeapPageCount(build, len, P) == U32CeilingDiv(build, len, P)

\* An encoder that wrote page_count pages, and a heap of heap_len bytes.
InitAddHeap ==
    /\ page_len \in 1..MaxGeoPageLen
    /\ encoded_size = 1
    /\ first_page_offset = 0
    /\ g_build \in {"checked", "wrapping"}
    /\ heap_len \in 0..U32Max
    /\ page_count \in 0..1
    /\ output = page_count * page_len
    /\ sec = NoSection
    /\ regions = <<>>
    /\ last_op = "new"
    /\ g_entry_count = 0
    /\ g_arg = 0
    /\ g_op = "none"
    /\ g_result = Val(0, FALSE)
    /\ SearchParked
    /\ CacheParked
    /\ CodecParked
    /\ ReaderParked

\* encoder.add_heap(heap)
CallAddHeap ==
    /\ g_op = "none"
    /\ \E pc \in {U32HeapPageCount(g_build, heap_len, page_len)} :
          IF pc.kind # "ok"
          THEN /\ g_result' = pc
               /\ UNCHANGED <<output, page_count>>
          ELSE \E total \in {Arith(g_build, pc, page_count + pc.val)} :
                  /\ output' = Pad(output + heap_len, HeapPadding(heap_len, page_len))
                  /\ IF total.kind # "ok"
                     THEN /\ g_result' = total
                          /\ UNCHANGED page_count
                     ELSE /\ page_count' = total.val
                          /\ g_result' = Val([page_offset |-> page_count,
                                              page_count |-> pc.val], total.wrapped)
    /\ g_op' = "add_heap"
    /\ last_op' = "add_heap"
    /\ UNCHANGED <<sec, heap_len, regions, g_build, g_entry_count, g_arg>>
    /\ UNCHANGED <<opts, svars, cvars, dvars, rvars>>

NextAddHeap == CallAddHeap

SpecAddHeap == InitAddHeap /\ [][NextAddHeap]_vars

----------------------------------------------------------------------------
(***************************************************************************)
(* Reader::get on a file the Encoder writes: a section of records behind   *)
(* the pages of another section, read through a Cache.                     *)
(***************************************************************************)
\* The record types of the section: u16,
\*   #[derive(Paged)] enum Enum { A, B(u8), C(u8, u16) },
\* (u8, u16) and Vec<u16>.
GetTypes == {"U16", "Enum", "Pair", "Vec"}

\* The records pushed: u16 values, the narrowest and the widest variant, two
\* pairs, the empty vector and one of two elements.
GetValues(name) ==
    CASE name = "U16" -> U16Vals
      [] name = "Enum" -> {[variant |-> 0, fields |-> <<>>],
                           [variant |-> 2, fields |-> <<7, 258>>]}
      [] name = "Pair" -> {<<0, 1>>, <<7, 258>>}
      [] name = "Vec" -> {<<>>, <<1, 258>>}

\* The pages of the section before: nothing but bytes 255.
Leader(n) == [i \in 1..n |-> 255]

\* Section::page_of_entry
SectionPageOfEntry(P, S, i) ==
    LET entries_per_page == P \div S
    IN <<i \div entries_per_page, i % entries_per_page>>

\* Section::offset_of_page
SectionOffsetOfPage(page_offset, P, i) == (page_offset + i) * P

\* page.push(v) behind an io::Result r of the records before: the ? of the
\* init closure.
Pushed(v, r) == IF ~r.ok THEN r ELSE Decoded(<<v>> \o r.val, r.pos)

\* The init closure of Reader::get_page: n records decoded one behind the
\* other from cursor p; a is the decode of the first of them.
RECURSIVE DecodePage(_, _, _, _, _)
RECURSIVE DecodeRest(_, _, _, _, _)
DecodeRest(a, t, s, base, n) ==
    IF ~a.ok THEN a ELSE Pushed(a.val, DecodePage(t, s, a.pos, base, n))

DecodePage(t, s, p, base, n) ==
    IF n = 0 THEN Decoded(<<>>, p)
    ELSE DecodeRest(DecodeFromHeap(t, s, p, base), t, s, base, n - 1)

\* Ref::new(pool.get(s).unwrap()).map(GetEntryBinder::new(i)) on the pool p:
\* page.get(i).unwrap()
GetEntry(p, s, k, i) ==
    IF i < Len(p[s].page)
    THEN [pool |-> [p EXCEPT ![s].pins = @ + 1],
          arcs |-> arcs (+) SetToBag({[slot |-> s, key |-> k, strong |-> 1,
                                       refs |-> SetToBag({View("entry", i)})]}),
          got |-> [kind |-> "Some", slot |-> s, key |-> k, i |-> i]]
    ELSE [pool |-> p, arcs |-> arcs, got |-> [kind |-> "panic"]]

\* The test of Reader::get on its argument.
InSection(i, entry_count) == i < entry_count

\* Encoder::new behind the pages of another section and begin_section, for
\* records of type ty, and an empty Cache.
InitGet ==
    /\ ty \in GetTypes
    /\ encoded_size = EncodedSize(TypeOf(ty))
    /\ page_len \in {2 * encoded_size, 2 * encoded_size + 1}
    /\ first_page_offset = 0
    /\ recs \in UNION {[1..n -> GetValues(ty)] : n \in 0..MaxGetRecs}
    /\ page_count \in {0, 1}
    /\ output = first_page_offset + page_count * page_len
    /\ out = Leader(output)
    /\ sec = NewSectionEncoder(page_count)
    /\ heap_len = 0
    /\ regions = <<>>
    /\ last_op = "off"
    /\ heap = <<>>
    /\ path = "heap"
    /\ c_pc = "off"
    /\ lens = <<>>
    /\ stream = <<>>
    /\ hsec = [page_offset |-> 0, page_count |-> 0]
    /\ input_pos = Seek(0)
    /\ decoded = <<>>
    /\ tampered = FALSE
    /\ index = [k \in 0..MaxGetRecs |-> NoSlot]
    /\ pool = [s \in Slots |-> FreeSlot]
    /\ arcs = EmptyBag
    /\ th = [t \in Threads |-> IdleThread]
    /\ section = [page_offset |-> 0, entry_count |-> 0]
    /\ entry_index = 0
    /\ r_pc = "write"
    /\ got = [kind |-> "none"]
    /\ pages = NoPages
    /\ current_page = NoPage
    /\ yielded = 0
    /\ SearchParked
    /\ GeometryParked

\* section::Encoder::push of the next record, to the bytes of the file: the
\* bytes the output skipped and a later write passes read as 0.
PushRecord ==
    /\ r_pc = "write"
    /\ sec.entry_count < Len(recs)
    /\ LET e == EncodeOnHeap(TypeOf(ty), recs[sec.entry_count + 1], heap)
           counted == IF sec.empty_page THEN page_count + 1 ELSE page_count
           len1 == sec.len + e.len
           padding == Padding(len1, page_len)
           pads == padding < encoded_size
           out1 == output + Len(e.bytes)
       IN /\ out' = out \o Zeros(output - Len(out)) \o e.bytes
          /\ heap' = e.heap
          /\ page_count' = counted
          /\ output' = IF pads THEN Pad(out1, padding) ELSE out1
          /\ sec' = [sec EXCEPT !.len = IF pads THEN len1 + padding ELSE len1,
                                !.entry_count = @ + 1,
                                !.empty_page = pads]
    /\ UNCHANGED <<heap_len, regions, last_op>>
    /\ UNCHANGED <<ty, path, recs, c_pc, lens, stream, hsec, input_pos, decoded,
                   tampered>>
    /\ UNCHANGED <<opts, svars, cvars, gvars, rvars>>

\* section::Encoder::end, Encoder::add_heap and Encoder::end, then
\* Reader::new on the bytes written.
OpenReader ==
    /\ r_pc = "write"
    /\ sec.entry_count = Len(recs)
    /\ section' = [page_offset |-> sec.page_offset,
                   entry_count |-> sec.entry_count]
    /\ sec' = NoSection
    /\ stream' = IF heap = <<>> THEN out
                 ELSE out \o Zeros(output - Len(out)) \o heap
    /\ hsec' = [page_offset |-> page_count,
                page_count |-> HeapPageCount(Len(heap), page_len)]
    /\ output' = Pad(output + Len(heap), HeapPadding(Len(heap), page_len))
    /\ page_count' = page_count + HeapPageCount(Len(heap), page_len)
    /\ input_pos' = Seek(first_page_offset)
    /\ r_pc' = "idle"
    /\ UNCHANGED <<heap_len, regions, last_op>>
    /\ UNCHANGED <<ty, path, recs, c_pc, out, heap, lens, decoded, tampered>>
    /\ UNCHANGED <<entry_index, got, pages, current_page, yielded>>
    /\ UNCHANGED <<opts, svars, cvars, gvars>>

\* reader.get(section, cache, context, heap, i) is called.
GetCall(i) ==
    /\ r_pc = "idle"
    /\ RefAvailable
    /\ entry_index' = i
    /\ r_pc' = "call"
    /\ got' = [kind |-> "none"]
    /\ UNCHANGED <<section, pages, current_page, yielded>>
    /\ UNCHANGED <<opts, wvars, svars, cvars, dvars, gvars>>

\* Reader::get to its return, through Reader::get_page, Cache::get_or_insert
\* and Ref::map.
GetReturn ==
    /\ r_pc = "call"
    /\ r_pc' = "idle"
    /\ IF ~InSection(entry_index, section.entry_count)
       THEN /\ got' = [kind |-> "None"]
            /\ UNCHANGED <<index, pool, arcs, input_pos>>
       ELSE LET pe == SectionPageOfEntry(page_len, encoded_size, entry_index)
                global_page_index == pe[1] + section.page_offset
            IN IF index[global_page_index] # NoSlot
               THEN \* Cache::get
                    LET r == GetEntry(pool, index[global_page_index],
                                      global_page_index, pe[2])
                    IN /\ pool' = r.pool
                       /\ arcs' = r.arcs
                       /\ got' = r.got
                       /\ UNCHANGED <<index, input_pos>>
               ELSE IF FreeSlots = {}
               THEN \* Cache::set, pool.create_with returns None
                    /\ got' = [kind |-> "Err", err |-> "OutOfMemory"]
                    /\ UNCHANGED <<index, pool, arcs, input_pos>>
               ELSE \* Cache::set, the init closure on a free slot
                    LET s == Smallest(FreeSlots)
                        offset == first_page_offset
                                  + SectionOffsetOfPage(section.page_offset,
                                                        page_len, pe[1])
                        entry_count == SectionPageSize(section.entry_count,
                                                       page_len, encoded_size,
                                                       pe[1])
                        base == first_page_offset + hsec.page_offset * page_len
                    IN \E d \in {DecodePage(TypeOf(ty), stream, Seek(offset),
                                             base, entry_count)} :
                       /\ input_pos' = d.pos
                       /\ IF d.ok
                          THEN LET r == GetEntry(
                                        [pool EXCEPT ![s] =
                                            [state |-> "present", page |-> d.val,
                                             pins |-> 0, marked |-> FALSE]],
                                        s, global_page_index, pe[2])
                               IN /\ index' = [index EXCEPT
                                                 ![global_page_index] = s]
                                  /\ pool' = r.pool
                                  /\ arcs' = r.arcs
                                  /\ got' = r.got
                          ELSE /\ pool' = PoolClear(
                                        [pool EXCEPT ![s].state = "present"], s)
                               /\ got' = [kind |-> "Err", err |-> d.err]
                               /\ UNCHANGED <<index, arcs>>
    /\ UNCHANGED <<section, entry_index, th, pages, current_page, yielded>>
    /\ UNCHANGED <<ty, path, recs, c_pc, out, heap, lens, stream, hsec, decoded,
                   tampered>>
    /\ UNCHANGED <<opts, wvars, svars, gvars>>

\* A handle that get returned is dropped.
GetDrop(a, v) ==
    /\ r_pc = "idle"
    /\ DropRef(a, v)

NextGet ==
    \/ PushRecord
    \/ OpenReader
    \/ \E i \in 0..(MaxGetRecs + 1) : GetCall(i)
    \/ GetReturn
    \/ \E a \in BagToSet(arcs) : \E v \in BagToSet(a.refs) : GetDrop(a, v)

SpecGet == InitGet /\ [][NextGet]_vars

-----------------------------------------------------------------------------
(***************************************************************************)
(* SpecShared: threads calling Reader::get_page on one Reader and one      *)
(* Cache.  The init closure of a miss locks the cursor, seeks, and decodes *)
(* the page one record a step; the lock is released when the closure       *)
(* returns.                                                                *)
(***************************************************************************)

\* The page of the section a thread's global page index stands for.
PageIndexOf(t) == th[t].key - section.page_offset

\* self.cursor.lock() that never waits.
CursorNeverWaits(t) == TRUE

\* self.cursor.lock() by thread t: granted when no thread is between its lock
\* and the return of its init closure.
CursorLock(t) == \A u \in Threads : th[u].pc # "decode"

\* A file of SpecGet and its Reader, for the threads to share: a section of
\* u16 or Vec<u16> records, two to the page, behind the page of another.
InitShared ==
    /\ InitGet
    /\ ty \in {"U16", "Vec"}
    /\ page_len = 2 * encoded_size
    /\ page_count = 1

\* reader.get_page(section, cache, context, heap, i) is called by thread t:
\* global_page_index, then cache.get_or_insert.
PageCall(t, i) ==
    /\ r_pc = "idle"
    /\ i < SectionPageCount(section.entry_count, page_len, encoded_size)
    /\ Call(t, "get_or_insert", i + section.page_offset)

\* The init closure to its seek: offset and entry_count, cursor.lock(),
\* cursor.seek(offset).
InitSeek(t) ==
    /\ th[t].pc = "init"
    /\ CursorLock(t)
    /\ input_pos' = Seek(first_page_offset
                         + SectionOffsetOfPage(section.page_offset, page_len,
                                               PageIndexOf(t)))
    /\ th' = [th EXCEPT ![t].pc = "decode"]
    /\ UNCHANGED <<index, pool, arcs>>
    /\ UNCHANGED <<ty, path, recs, c_pc, out, heap, lens, stream, hsec, decoded,
                   tampered>>
    /\ UNCHANGED <<opts, wvars, svars, gvars, rvars>>

\* One turn of the loop: page.push(T::decode_from_heap(&mut cursor, ..)?).
\* On an error the closure returns it, the lock is released and create_with
\* returns the slot.
InitDecode(t) ==
    /\ th[t].pc = "decode"
    /\ th[t].n < SectionPageSize(section.entry_count, page_len, encoded_size,
                                 PageIndexOf(t))
    /\ \E d \in {DecodeFromHeap(TypeOf(ty), stream, input_pos,
                                first_page_offset + hsec.page_offset * page_len)} :
          /\ input_pos' = d.pos
          /\ IF d.ok
             THEN /\ pool' = [pool EXCEPT ![th[t].slot].page = Append(@, d.val)]
                  /\ th' = [th EXCEPT ![t].n = @ + 1]
             ELSE /\ pool' = [pool EXCEPT ![th[t].slot].state = "present"]
                  /\ th' = [th EXCEPT ![t].pc = "created", ![t].res = "Err"]
    /\ UNCHANGED <<index, arcs>>
    /\ UNCHANGED <<ty, path, recs, c_pc, out, heap, lens, stream, hsec, decoded,
                   tampered>>
    /\ UNCHANGED <<opts, wvars, svars, gvars, rvars>>

\* The loop is over: the closure returns Ok(()), the lock is released and
\* create_with returns the slot.
InitReturn(t) ==
    /\ th[t].pc = "decode"
    /\ th[t].n = SectionPageSize(section.entry_count, page_len, encoded_size,
                                 PageIndexOf(t))
    /\ pool' = [pool EXCEPT ![th[t].slot].state = "present"]
    /\ th' = [th EXCEPT ![t].pc = "created", ![t].res = "Ok"]
    /\ UNCHANGED <<index, arcs>>
    /\ UNCHANGED <<opts, wvars, svars, dvars, gvars, rvars>>

\* A page handle that get_page returned is dropped, while no call is in
\* flight: a drop touches neither the cursor nor the entries of a page.
PageDrop(a, v) ==
    /\ r_pc = "idle"
    /\ \A t \in Threads : th[t].pc = "idle"
    /\ DropRef(a, v)

NextShared ==
    \/ PushRecord
    \/ OpenReader
    \/ \E t \in Threads : \E i \in 0..MaxGetRecs : PageCall(t, i)
    \/ \E t \in Threads : CacheHit(t)
    \/ \E t \in Threads : CacheMiss(t)
    \/ \E t \in Threads : SetCreate(t)
    \/ \E t \in Threads : SetOutOfMemory(t)
    \/ \E t \in Threads : InitSeek(t)
    \/ \E t \in Threads : InitDecode(t)
    \/ \E t \in Threads : InitReturn(t)
    \/ \E t \in Threads : SetPublish(t)
    \/ \E t \in Threads : SetFailed(t)
    \/ \E a \in BagToSet(arcs) : \E v \in BagToSet(a.refs) : PageDrop(a, v)

SpecShared == InitShared /\ [][NextShared]_vars

-----------------------------------------------------------------------------
(***************************************************************************)
(* SpecIter: Reader::pages and Reader::iter over the section of a file the *)
(* Encoder wrote.  A call of Pages::next_with is one step; a call of       *)
(* Iter::next_with is one step a turn of its loop.                         *)
(***************************************************************************)

\* Pages::new with a page count rounded down.
NewPagesFloor(entry_count, P, S) ==
    [page_count |-> entry_count \div (P \div S), page_index |-> 0]

\* Pages::new
NewPages(entry_count, P, S) ==
    [page_count |-> SectionPageCount(entry_count, P, S), page_index |-> 0]

\* The init closure of get_page for page i, run on the cursor.
PageDecode(i) ==
    DecodePage(TypeOf(ty), stream,
               Seek(first_page_offset
                    + SectionOffsetOfPage(section.page_offset, page_len, i)),
               first_page_offset + hsec.page_offset * page_len,
               SectionPageSize(section.entry_count, page_len, encoded_size, i))

\* reader.get_page(section, cache, context, heap, i) short of the Ref it
\* returns, where d is what the init closure does if it is run: the slot or
\* the error, and the index, the pool and the cursor afterwards.
GetPageWith(i, d) ==
    LET k == i + section.page_offset
        s == Smallest(FreeSlots)
    IN IF index[k] # NoSlot
       THEN [ok |-> TRUE, slot |-> index[k], key |-> k, index |-> index,
             pool |-> pool, pos |-> input_pos]
       ELSE IF FreeSlots = {}
       THEN [ok |-> FALSE, err |-> "OutOfMemory", index |-> index,
             pool |-> pool, pos |-> input_pos]
       ELSE IF d.ok
       THEN [ok |-> TRUE, slot |-> s, key |-> k,
             index |-> [index EXCEPT ![k] = s],
             pool |-> [pool EXCEPT ![s] = [state |-> "present", page |-> d.val,
                                           pins |-> 0, marked |-> FALSE]],
             pos |-> d.pos]
       ELSE [ok |-> FALSE, err |-> d.err, index |-> index,
             pool |-> PoolClear([pool EXCEPT ![s].state = "present"], s),
             pos |-> d.pos]

\* Ref::new(pool.get(slot).unwrap()) holding view v: a guard behind a new Arc.
RefOn(slot, k, v) ==
    [slot |-> slot, key |-> k, strong |-> 1, refs |-> SetToBag({v})]

InitIter == InitGet

\* reader.pages(section, cache, heap)
CallPages ==
    /\ r_pc = "idle"
    /\ pages' = NewPages(section.entry_count, page_len, encoded_size)
    /\ r_pc' = "pages"
    /\ UNCHANGED <<section, entry_index, got, current_page, yielded>>
    /\ UNCHANGED <<opts, wvars, svars, cvars, dvars, gvars>>

\* reader.iter(section, cache, heap)
CallIter ==
    /\ r_pc = "idle"
    /\ pages' = NewPages(section.entry_count, page_len, encoded_size)
    /\ current_page' = NoPage
    /\ r_pc' = "iter"
    /\ UNCHANGED <<section, entry_index, got, yielded>>
    /\ UNCHANGED <<opts, wvars, svars, cvars, dvars, gvars>>

\* Pages::next_with
PagesNextWith ==
    /\ r_pc = "pages"
    /\ IF pages.page_index < pages.page_count
       THEN \E d \in {PageDecode(pages.page_index)} :
            \E g \in {GetPageWith(pages.page_index, d)} :
               /\ index' = g.index
               /\ input_pos' = g.pos
               /\ IF g.ok
                  THEN /\ pool' = [g.pool EXCEPT ![g.slot].pins = @ + 1]
                       /\ arcs' = arcs (+) SetToBag({RefOn(g.slot, g.key,
                                                           View("page", 0))})
                       /\ pages' = [pages EXCEPT !.page_index = @ + 1]
                       /\ got' = [kind |-> "Ok", slot |-> g.slot, key |-> g.key]
                       /\ yielded' = yielded + 1
                  ELSE /\ pool' = g.pool
                       /\ got' = [kind |-> "Err", err |-> g.err]
                       /\ UNCHANGED <<arcs, pages, yielded>>
       ELSE /\ got' = [kind |-> "None"]
            /\ UNCHANGED <<index, pool, arcs, input_pos, pages, yielded>>
    /\ UNCHANGED <<section, entry_index, r_pc, current_page, th>>
    /\ UNCHANGED <<ty, path, recs, c_pc, out, heap, lens, stream, hsec, decoded,
                   tampered>>
    /\ UNCHANGED <<opts, wvars, svars, gvars>>

\* Iter::next_with is called.
IterCall ==
    /\ r_pc = "iter"
    /\ r_pc' = "iter_loop"
    /\ UNCHANGED <<section, entry_index, got, pages, current_page, yielded>>
    /\ UNCHANGED <<opts, wvars, svars, cvars, dvars, gvars>>

\* A turn of the loop with current_page Some(page): page.next() gives the
\* next entry, which is returned, or None, and the page is let go.
IterOnPage ==
    /\ r_pc = "iter_loop"
    /\ current_page.some
    /\ \E a \in BagToSet(arcs) : \E v \in BagToSet(a.refs) :
          /\ a.slot = current_page.slot
          /\ v.view = "iter"
          /\ IF v.i < Len(pool[a.slot].page)
             THEN /\ arcs' = Replace(a, [a EXCEPT
                                !.strong = ArcClone(@),
                                !.refs = Rebind(@, v, View("iter", v.i + 1))
                                             (+) SetToBag({View("item", v.i)})])
                  /\ got' = [kind |-> "Ok", slot |-> a.slot, key |-> a.key,
                             i |-> v.i]
                  /\ yielded' = yielded + 1
                  /\ r_pc' = "iter"
                  /\ UNCHANGED <<pool, current_page>>
             ELSE /\ LET left == [a EXCEPT !.strong = @ - 1,
                                           !.refs = @ (-) SetToBag({v})]
                     IN arcs' = IF BagToSet(left.refs) = {}
                                THEN arcs (-) SetToBag({a})
                                ELSE Replace(a, left)
                  /\ pool' = IF a.strong = 1 THEN PoolRelease(pool, a.slot)
                             ELSE pool
                  /\ current_page' = NoPage
                  /\ UNCHANGED <<got, yielded, r_pc>>
    /\ UNCHANGED <<section, entry_index, pages, index, th>>
    /\ UNCHANGED <<opts, wvars, svars, dvars, gvars>>

\* A turn of the loop with current_page None: self.pages.next_with(context)
\* gives a page, which becomes the current page under an IterBinder, or an
\* error or None, which is returned.
IterOffPage ==
    /\ r_pc = "iter_loop"
    /\ ~current_page.some
    /\ IF pages.page_index < pages.page_count
       THEN \E d \in {PageDecode(pages.page_index)} :
            \E g \in {GetPageWith(pages.page_index, d)} :
               /\ index' = g.index
               /\ input_pos' = g.pos
               /\ IF g.ok
                  THEN /\ pool' = [g.pool EXCEPT ![g.slot].pins = @ + 1]
                       /\ arcs' = arcs (+) SetToBag({RefOn(g.slot, g.key,
                                                           View("iter", 0))})
                       /\ pages' = [pages EXCEPT !.page_index = @ + 1]
                       /\ current_page' = [some |-> TRUE, slot |-> g.slot,
                                           key |-> g.key]
                       /\ UNCHANGED <<got, r_pc>>
                  ELSE /\ pool' = g.pool
                       /\ got' = [kind |-> "Err", err |-> g.err]
                       /\ r_pc' = "iter"
                       /\ UNCHANGED <<arcs, pages, current_page>>
       ELSE /\ got' = [kind |-> "None"]
            /\ r_pc' = "iter"
            /\ UNCHANGED <<index, pool, arcs, input_pos, pages, current_page>>
    /\ UNCHANGED <<section, entry_index, yielded, th>>
    /\ UNCHANGED <<ty, path, recs, c_pc, out, heap, lens, stream, hsec, decoded,
                   tampered>>
    /\ UNCHANGED <<opts, wvars, svars, gvars>>

\* The client drops a page or an entry the iterator returned.
IterDrop(a, v) ==
    /\ r_pc \in {"pages", "iter"}
    /\ v.view \in {"page", "item"}
    /\ DropRef(a, v)

NextIter ==
    \/ PushRecord
    \/ OpenReader
    \/ CallPages
    \/ CallIter
    \/ PagesNextWith
    \/ IterCall
    \/ IterOnPage
    \/ IterOffPage
    \/ \E a \in BagToSet(arcs) : \E v \in BagToSet(a.refs) : IterDrop(a, v)

SpecIter == InitIter /\ [][NextIter]_vars

----------------------------------------------------------------------------
(***************************************************************************)
(* The Cursor of the reader under its own methods: a page of records and a *)
(* heap section of one page behind it.                                     *)
(***************************************************************************)
\* Cursor::read (the inherent method): input.read_exact of n bytes;
\* current_offset is left as it was.
CursorRead(s, p, n) ==
    IF p.at + n > Len(s) THEN Failed("UnexpectedEof", p)
    ELSE Decoded(SubSeq(s, p.at + 1, p.at + n), At(p.at + n, p.current_offset))

\* Cursor::read_from_heap: seek to the heap offset, input.read_exact of n
\* bytes, seek to the saved current_offset.
CursorReadFromHeap(s, p, base, offset, n) ==
    LET saved_offset == p.current_offset
        q == Seek(base + offset)
    IN IF q.at + n > Len(s) THEN Failed("UnexpectedEof", q)
       ELSE Decoded(SubSeq(s, q.at + 1, q.at + n), Seek(saved_offset))

\* Reader::new on an input of two pages whose byte i is i, the second page
\* a heap section; the input is at first_page_offset.
InitCursor ==
    /\ page_len \in 2..MaxPageLen
    /\ first_page_offset = 0
    /\ encoded_size = 1
    /\ stream = [i \in 1..(2 * page_len) |-> i]
    /\ hsec = [page_offset |-> 1, page_count |-> 1]
    /\ input_pos = Seek(first_page_offset)
    /\ c_pc = "new"
    /\ decoded = <<>>
    /\ ty = "none"
    /\ path = "none"
    /\ recs = <<>>
    /\ out = <<>>
    /\ heap = <<>>
    /\ lens = <<>>
    /\ tampered = FALSE
    /\ WriterParked
    /\ SearchParked
    /\ CacheParked
    /\ GeometryParked
    /\ ReaderParked

\* What the other variables of a Cursor step leave alone.
CursorFrame ==
    /\ UNCHANGED <<ty, path, recs, out, heap, lens, stream, hsec, tampered>>
    /\ UNCHANGED <<opts, wvars, svars, cvars, gvars, rvars>>

\* cursor.seek(offset)
DoSeek(offset) ==
    /\ input_pos' = Seek(offset)
    /\ c_pc' = "seek"
    /\ decoded' = <<>>
    /\ CursorFrame

\* cursor.pad(padding)
DoPad(padding) ==
    /\ input_pos.at + padding <= Len(stream)
    /\ input_pos.current_offset + padding <= Len(stream)
    /\ input_pos' = CursorPad(input_pos, padding)
    /\ c_pc' = "pad"
    /\ decoded' = <<>>
    /\ CursorFrame

\* cursor.read(&mut bytes), the inherent method, of n bytes the input has
DoRead(n) ==
    /\ input_pos.at + n <= Len(stream)
    /\ input_pos' = CursorRead(stream, input_pos, n).pos
    /\ c_pc' = "read"
    /\ decoded' = <<>>
    /\ CursorFrame

\* io::Read::read_exact(&mut cursor, &mut bytes) of n bytes the input has
DoIoRead(n) ==
    /\ input_pos.at + n <= Len(stream)
    /\ input_pos.current_offset + n <= Len(stream)
    /\ input_pos' = ReadExact(stream, input_pos, n).pos
    /\ c_pc' = "io_read"
    /\ decoded' = <<>>
    /\ CursorFrame

\* cursor.decode_from_heap::<_, u8>(context, heap, offset)
DoDecodeFromHeap(offset) ==
    /\ LET base == first_page_offset + hsec.page_offset * page_len IN
       \E r \in {CursorDecodeFromHeap(U8, stream, input_pos, base, offset)} :
          /\ input_pos' = r.pos
          /\ decoded' = <<[start |-> input_pos, res |-> r,
                           offset |-> offset, n |-> 1]>>
    /\ c_pc' = "decode_from_heap"
    /\ CursorFrame

\* cursor.read_from_heap(heap, offset, &mut bytes) of n bytes
DoReadFromHeap(offset, n) ==
    /\ LET base == first_page_offset + hsec.page_offset * page_len IN
       \E r \in {CursorReadFromHeap(stream, input_pos, base, offset, n)} :
          /\ input_pos' = r.pos
          /\ decoded' = <<[start |-> input_pos, res |-> r,
                           offset |-> offset, n |-> n]>>
    /\ c_pc' = "read_from_heap"
    /\ CursorFrame

NextCursor ==
    \/ \E offset \in 0..Len(stream) : DoSeek(offset)
    \/ \E padding \in 1..MaxCursorRead : DoPad(padding)
    \/ \E n \in 1..MaxCursorRead : DoRead(n)
    \/ \E n \in 1..MaxCursorRead : DoIoRead(n)
    \/ \E offset \in 0..(page_len - 1) : DoDecodeFromHeap(offset)
    \/ \E offset \in 0..(page_len - 1), n \in 1..MaxCursorRead :
          DoReadFromHeap(offset, n)

SpecCursor == InitCursor /\ [][NextCursor]_vars

----------------------------------------------------------------------------
(***************************************************************************)
(* Claims about the writer.                                                *)
(***************************************************************************)

\* C1: the first byte of every section and of every heap section is written
\* at stream position first_page_offset + descriptor.page_offset * P, also
\* after a section whose last page holds fewer than floor(P/S) records.
C1_PageAligned ==
    \A i \in 1..Len(regions) :
        regions[i].len > 0 =>
            regions[i].start =
                first_page_offset + regions[i].desc.page_offset * page_len

----------------------------------------------------------------------------
(***************************************************************************)
(* Claims about Reader::binary_search_by_key.                              *)
(***************************************************************************)
KeyPresent == \E j \in 1..Len(entries) : entries[j] = key

\* C3: on a section strictly ordered by key, binary_search_by_key returns
\* Some(r) iff some entry has the searched key, and then r is an entry with
\* that key; on an empty section it returns None.
C3_SearchCorrect ==
    (s_pc = "done" /\ result # IoError) =>
        /\ result.some <=> KeyPresent
        /\ result.some => GetPage(result.page)[result.i + 1] = key
        /\ entries = <<>> => result = None

\* C3 witness: the key was found after bisecting a section of three or more
\* pages more than once.
C3_Witness ==
    /\ s_pc = "done"
    /\ result.some
    /\ iters >= 2
    /\ SectionPageCount(Len(entries), page_len, encoded_size) >= 3

\* C4: the page bisection terminates: an iteration that does not return
\* changes (min, max, page_index), so the deterministic loop never repeats a
\* state.
C4_SearchProgress ==
    [][(s_pc = "loop" /\ s_pc' = "loop")
         => <<min, max, page_index>>' # <<min, max, page_index>>]_vars

----------------------------------------------------------------------------
(***************************************************************************)
(* Claims about the cache.                                                 *)
(***************************************************************************)
AllIdle == \A t \in Threads : th[t].pc = "idle"
NoLiveRef == BagToSet(arcs) = {}
Resident(k) == {s \in Slots : pool[s].state = "present" /\ pool[s].page = FullPage(k)}

\* C5: after concurrent get_or_insert calls for one page and the drop of
\* every handle, the pool holds exactly one resident slot for that page (the
\* slot of the caller that lost the publication is reclaimed).
C5_OneResidentSlot ==
    (AllIdle /\ NoLiveRef) =>
        \A k \in CacheKeys :
            Cardinality(Resident(k)) = IF index[k] = NoSlot THEN 0 ELSE 1

\* C6: while a Ref is alive (returned by the cache, mapped, cloned, or
\* yielded by stepping an iterator Ref) the Arc it holds is counted, the pool
\* guard behind it pins the slot, and the slot is present with the page it
\* was created on: it is neither cleared nor recycled.
C6_Residency ==
    \A a \in BagToSet(arcs) :
        /\ a.strong >= 1
        /\ pool[a.slot].state = "present"
        /\ pool[a.slot].pins >= 1
        /\ ~pool[a.slot].marked
        /\ pool[a.slot].page = FullPage(a.key)

\* C6 witness: an entry handle yielded by an iterator Ref is the only handle
\* left on its Arc (the iterator has been dropped), while another slot has
\* been taken for a page.
C6_Witness ==
    \E a \in BagToSet(arcs) :
        /\ BagCardinality(arcs) = 1
        /\ a.strong = 1
        /\ BagCardinality(a.refs) = 1
        /\ \E v \in BagToSet(a.refs) : v.view = "item"
        /\ \E s \in Slots : s # a.slot /\ pool[s].state # "free"

\* C7: a key is in the index only once the init closure of its slot has
\* returned Ok, so every handle returned by get or get_or_insert observes a
\* page holding all the entries its init pushed.
C7_NoPartialPage ==
    /\ \A k \in CacheKeys :
           index[k] # NoSlot =>
               /\ pool[index[k]].state = "present"
               /\ pool[index[k]].page = FullPage(k)
    /\ \A a \in BagToSet(arcs) : pool[a.slot].page = FullPage(a.key)

\* C7 witness: a handle on a published page is held while another thread is
\* half way through the init of a slot for the same page.
C7_Witness ==
    \E a \in BagToSet(arcs), t \in Threads :
        /\ th[t].pc = "init"
        /\ th[t].key = a.key
        /\ index[th[t].key] # NoSlot
        /\ Len(pool[th[t].slot].page) \in 1..(InitLen - 1)

\* C8: when the index already contains the page, get_or_insert returns a
\* handle on the existing slot without running init, without taking a pool
\* slot and without changing the index.
C8_HitFrame ==
    [][\A t \in Threads :
         (/\ th[t].pc = "lookup"
          /\ th[t].op = "get_or_insert"
          /\ index[th[t].key] # NoSlot
          /\ th'[t] # th[t])
         => /\ th'[t].pc = "idle"
            /\ th'[t].ret.kind = "ref"
            /\ \E a \in BagToSet(arcs') :
                   /\ a.slot = index[th[t].key]
                   /\ BagToSet(a.refs) = {View("page", 0)}
                   /\ arcs' = arcs (+) SetToBag({a})
            /\ index' = index
            /\ \A s \in Slots : /\ pool'[s].state = pool[s].state
                                /\ pool'[s].page = pool[s].page]_vars

\* C8 witness: a get_or_insert has returned a handle from a hit.
C8_Witness ==
    \E t \in Threads :
        /\ th[t].pc = "idle"
        /\ th[t].ret.kind = "ref"
        /\ th[t].ret.via = "get_or_insert"
        /\ \E a \in BagToSet(arcs) : pool[a.slot].pins >= 2

\* C9: when init fails the error is returned, the slot is cleared (the
\* entries pushed before the failure are discarded) and the index is
\* unchanged; an init that starts later starts on an empty page.
C9_FailedInit ==
    [][\A t \in Threads :
         /\ (th[t].pc = "created" /\ th[t].res = "Err" /\ th'[t] # th[t])
            => /\ th'[t].pc = "idle"
               /\ th'[t].ret.kind = "Err"
               /\ index' = index
               /\ pool'[th[t].slot] = FreeSlot
         /\ (th[t].pc = "create" /\ th'[t].pc = "init")
            => pool'[th'[t].slot].page = <<>>]_vars

\* C9 witness: an init failed after pushing an entry and its slot has been
\* cleared, and an init for the same page starts on an empty page.
C9_Witness ==
    \E t, u \in Threads :
        /\ th[t].pc = "idle"
        /\ th[t].ret.kind = "Err"
        /\ th[t].ret.partial
        /\ th[u].pc = "init"
        /\ th[u].key = th[t].ret.key
        /\ th[u].n = 0
        /\ pool[th[u].slot].page = <<>>
        /\ index[th[u].key] = NoSlot

\* C10: when the pool has no free slot, get_or_insert on an uncached key
\* returns Error::OutOfMemory, init is not run and the index is unchanged.
C10_OutOfMemory ==
    [][\A t \in Threads :
         (/\ th[t].pc = "create"
          /\ \A s \in Slots : pool[s].state # "free"
          /\ th'[t] # th[t])
         => /\ th'[t].pc = "idle"
            /\ th'[t].ret.kind = "OutOfMemory"
            /\ index' = index
            /\ pool' = pool]_vars

\* C10 witness: a call has returned Error::OutOfMemory.
C10_Witness ==
    \E t \in Threads :
        /\ th[t].pc = "idle"
        /\ th[t].ret.kind = "OutOfMemory"
        /\ \A s \in Slots : pool[s].state # "free"

\* C26: in every reachable state of the cache, failed inits and equal-key
\* races included, every key of the index maps to a slot that is occupied,
\* not marked for clearing, out of the hands of any init closure and holds a
\* completely initialised page, so pool.get(i).unwrap() in Cache::get and
\* Cache::set never panics.
C26_IndexValid ==
    /\ \A k \in CacheKeys :
           index[k] # NoSlot =>
               /\ index[k] \in Slots
               /\ pool[index[k]].state = "present"
               /\ ~pool[index[k]].marked
               /\ Len(pool[index[k]].page) = InitLen
               /\ \A t \in Threads :
                      th[t].pc \in {"init", "created"} => th[t].slot # index[k]
    /\ \A t \in Threads : th[t].ret.kind # "panic"

\* C26 witness: after an equal-key race left a second slot holding the page
\* of an indexed key, and after every handle on the indexed slot was dropped,
\* an init for another page has failed after a push and is about to clear
\* its own slot.
C26_Witness ==
    \E k \in CacheKeys, t \in Threads :
        /\ index[k] # NoSlot
        /\ pool[index[k]].pins = 0
        /\ \E s \in Slots : s # index[k] /\ s \in Resident(k)
        /\ th[t].pc = "created"
        /\ th[t].res = "Err"
        /\ th[t].n > 0
        /\ index[th[t].key] = NoSlot

----------------------------------------------------------------------------
(***************************************************************************)
(* Claims about the record codec.                                          *)
(***************************************************************************)
\* C11: encoding any variant of a derived enum, flat or on heap, writes
\* exactly ENCODED_SIZE = 1 + max variant width bytes to the output, and the
\* length returned is the number of bytes written.
C11_EnumFixedSize ==
    ty = "Enum" =>
        \A n \in 1..Len(lens) :
            /\ lens[n].wrote = EncodedSize(TypeOf(ty))
            /\ lens[n].len = lens[n].wrote

\* C12: decoding a derived enum, flat or from heap, consumes exactly
\* ENCODED_SIZE input bytes, so that record n of a page is decoded from its
\* own first byte; a discriminant outside [0, k) is an invalid-data error.
C12_EnumDecodeSize ==
    ty = "Enum" =>
        \A n \in 1..Len(decoded) :
            LET d == decoded[n] IN
            /\ d.start.at =
                   first_page_offset + (n - 1) * EncodedSize(TypeOf(ty))
            /\ d.res.ok => d.res.pos.at = d.start.at + EncodedSize(TypeOf(ty))
            /\ stream[d.start.at + 1] >= Len(TypeOf(ty).variants)
                   => (~d.res.ok /\ d.res.err = "InvalidData")

\* C13: encode_on_heap of a Vec writes an 8-byte stub and appends the
\* elements' flat encodings to the heap, and decode_from_heap against that
\* heap returns the same elements in the same order.
C13_VecRoundTrip ==
    ty = "Vec" =>
        /\ \A n \in 1..Len(lens) : lens[n] = [wrote |-> 8, len |-> 8]
        /\ ~tampered =>
               \A n \in 1..Len(decoded) :
                   /\ decoded[n].res.ok
                   /\ decoded[n].res.val = recs[n]

\* C14: encode_on_heap of a pair (a, b) writes the encoding of a followed by
\* the encoding of b, ENCODED_SIZE(A) + ENCODED_SIZE(B) bytes, and
\* decode_from_heap of those bytes returns (a, b).
C14_PairHeapCodec ==
    (ty = "Pair" /\ path = "heap") =>
        /\ \A n \in 1..Len(lens) :
               lens[n] = [wrote |-> EncodedSize(TypeOf(ty)),
                          len |-> EncodedSize(TypeOf(ty))]
        /\ ~tampered =>
               \A n \in 1..Len(decoded) :
                   /\ decoded[n].res.ok
                   /\ decoded[n].res.val = recs[n]

\* C20: every heap offset a decoder follows is below heap.page_count * P; a
\* stub whose offset is not makes the decode return an invalid-data error
\* instead of reading bytes outside the heap section.
C20_HeapDereferenceInside ==
    ty = "Vec" =>
        \A n \in 1..Len(decoded) :
            LET d == decoded[n]
                e == DecodeEntry(stream, d.start)
            IN (/\ e.ok
                /\ e.val.len > 0
                /\ e.val.offset >= hsec.page_count * page_len)
               => (~d.res.ok /\ d.res.err = "InvalidData")

----------------------------------------------------------------------------
(***************************************************************************)
(* Claims about the section geometry.                                      *)
(***************************************************************************)
\* The records of a section of n entries that page p stores.
RecordsOfPage(n, epp, p) == {i \in 0..(n - 1) : i \div epp = p}

\* C16: with entries_per_page >= 1, Section::page_count returns, for every
\* u32 entry_count and without overflowing or wrapping, the least page count
\* whose pages hold entry_count records: 0 for an empty section.
C16_PageCount ==
    LET epp == EntriesPerPage(page_len, encoded_size) IN
    (g_op = "page_count" /\ epp >= 1) =>
        /\ g_result.kind = "ok"
        /\ ~g_result.wrapped
        /\ g_result.val * epp >= g_entry_count
        /\ g_entry_count > 0 => (g_result.val - 1) * epp < g_entry_count
        /\ g_entry_count = 0 => g_result.val = 0

\* The sum of Section::page_size over the pages 0 .. n - 1.
RECURSIVE SumPageSizes(_)
SumPageSizes(n) ==
    IF n = 0 THEN 0
    ELSE U32PageSize(g_build, g_entry_count, page_len, encoded_size, n - 1).val
         + SumPageSizes(n - 1)

\* C17: Section::page_size(p) is the number of records stored in page p,
\* between 1 and entries_per_page for every page of the section, the page
\* sizes sum to entry_count, and the subtraction does not underflow for any
\* page index Reader::get_page accepts.
C17_PageSize ==
    LET epp == EntriesPerPage(page_len, encoded_size) IN
    /\ (g_op = "page_size" /\ epp >= 1 /\ g_arg * epp < g_entry_count) =>
           /\ g_result.kind = "ok"
           /\ ~g_result.wrapped
           /\ g_result.val \in 1..epp
           /\ g_result.val = Cardinality(RecordsOfPage(g_entry_count, epp, g_arg))
           /\ SumPageSizes(CeilingDiv(g_entry_count, epp)) = g_entry_count
    /\ (g_op = "get_page" /\ epp >= 1 /\ g_arg * page_len <= U32Max) =>
           /\ g_result.kind = "ok"
           /\ ~g_result.wrapped

\* C18: Section::page_of_entry(i) = (i div entries_per_page, i mod
\* entries_per_page), and for i < entry_count the result (p, j) names a page
\* of the section and a record of that page with p * entries_per_page + j =
\* i, so that distinct entries have distinct places.
C18_PageOfEntry ==
    LET epp == EntriesPerPage(page_len, encoded_size) IN
    (g_op = "page_of_entry" /\ epp >= 1 /\ g_arg < g_entry_count) =>
        /\ g_result.kind = "ok"
        /\ LET p == g_result.val[1]
               j == g_result.val[2]
           IN /\ p * epp < g_entry_count
              /\ j < U32PageSize(g_build, g_entry_count, page_len,
                                 encoded_size, p).val
              /\ p * epp + j = g_arg
              /\ g_arg \in RecordsOfPage(g_entry_count, epp, p)

\* C18 witness: an entry that is neither in the first pages nor the first
\* of its page has been located.
C18_Witness ==
    /\ g_op = "page_of_entry"
    /\ g_arg < g_entry_count
    /\ g_result.kind = "ok"
    /\ g_result.val[1] >= 2
    /\ g_result.val[2] >= 1

\* C19: when ENCODED_SIZE(T) > page_len the geometry methods and get_page
\* surface an invalid-data error.
C19_RecordLargerThanPage ==
    (encoded_size > page_len
        /\ g_op \in {"page_count", "page_size", "page_of_entry", "get_page"}) =>
        /\ g_result.kind = "err"
        /\ g_result.err = "InvalidData"
----------------------------------------------------------------------------
(***************************************************************************)
(* Claims about Reader::get.                                               *)
(***************************************************************************)

\* C15: a call of get with entry_index >= entry_count returns Ok(None) and
\* leaves the stream, the cursor and the cache as they were; a call with
\* entry_index < entry_count returns a handle on entry
\* entry_index mod entries_per_page of page entry_index div entries_per_page
\* of the section, whose view is record entry_index of the section (or
\* OutOfMemory when the pool has no slot), and the projection does not
\* panic.
C15_GetBoundsAndProjection ==
    [][(r_pc = "call" /\ r_pc' = "idle") =>
          LET entries_per_page == page_len \div encoded_size IN
          IF entry_index >= section.entry_count
          THEN /\ got'.kind = "None"
               /\ UNCHANGED <<stream, input_pos, index, pool, arcs>>
          ELSE \/ /\ got'.kind = "Err"
                  /\ got'.err = "OutOfMemory"
               \/ /\ got'.kind = "Some"
                  /\ got'.key = section.page_offset
                                 + entry_index \div entries_per_page
                  /\ got'.i = entry_index % entries_per_page
                  /\ index'[got'.key] = got'.slot
                  /\ got'.i < Len(pool'[got'.slot].page)
                  /\ pool'[got'.slot].page[got'.i + 1] = recs[entry_index + 1]
      ]_vars

----------------------------------------------------------------------------
(***************************************************************************)
(* Claims about the Cursor.                                                *)
(***************************************************************************)

\* C21: a heap dereference (Cursor::decode_from_heap, Cursor::read_from_heap)
\* that returns Ok has read the bytes at first_page_offset +
\* heap.page_offset * P + offset and leaves the input at the position it had
\* just before the call, whatever calls of seek, pad, read and io::Read
\* reads came before.
C21_HeapDereferenceRestores ==
    \A n \in 1..Len(decoded) :
        LET d == decoded[n]
            from == first_page_offset + hsec.page_offset * page_len + d.offset
        IN (c_pc \in {"decode_from_heap", "read_from_heap"} /\ d.res.ok) =>
               /\ input_pos.at = d.start.at
               /\ c_pc = "decode_from_heap" => d.res.val = stream[from + 1]
               /\ c_pc = "read_from_heap"
                      => d.res.val = SubSeq(stream, from + 1, from + d.n)

----------------------------------------------------------------------------
(***************************************************************************)
(* Claims about the file as a whole.                                       *)
(***************************************************************************)

\* C22: the descriptor section::Encoder::end returns has the page_count of
\* the Encoder at begin_section for page_offset and the number of pushes for
\* entry_count, and the section has advanced the page_count of the Encoder
\* by ceil(entry_count / floor(P / S)), so that the heap section behind it
\* begins at the page behind the section's last.
C22_SectionDescriptor ==
    /\ (r_pc = "write" /\ sec.entry_count = 0) => sec.page_offset = page_count
    /\ r_pc \in {"idle", "call"} =>
          /\ section.entry_count = Len(recs)
          /\ hsec.page_offset =
                 section.page_offset
                 + CeilingDiv(section.entry_count, page_len \div encoded_size)

\* C23: add_heap writes the heap's bytes, advances the output by the padding
\* (P - len mod P) mod P, returns the HeapSection whose page_offset is the
\* encoder's page_count before the call and whose page_count is ceil(len / P),
\* and increases the encoder's page_count by that amount; for an empty heap
\* nothing is written, the page_count returned is 0 and the counter keeps its
\* value.
C23_AddHeapDescriptor ==
    [][g_op' = "add_heap" =>
          /\ g_result'.kind = "ok"
          /\ g_result'.val = [page_offset |-> page_count,
                              page_count |-> CeilingDiv(heap_len, page_len)]
          /\ output' = output + heap_len
                           + ((page_len - (heap_len % page_len)) % page_len)
          /\ page_count' = page_count + CeilingDiv(heap_len, page_len)
          /\ heap_len = 0 => (output' = output /\ page_count' = page_count)]_vars

\* C25: a Reader built on the file one Encoder wrote, with the same page_len
\* and first_page_offset, returns from get(section, i) the i-th value pushed
\* to the section, for every i < entry_count, heap-stored fields included
\* (short of a cache without a free slot).
C25_RoundTrip ==
    (r_pc = "idle" /\ got.kind # "none" /\ entry_index < Len(recs)) =>
        \/ /\ got.kind = "Err"
           /\ got.err = "OutOfMemory"
        \/ /\ got.kind = "Some"
           /\ got.i < Len(pool[got.slot].page)
           /\ pool[got.slot].page[got.i + 1] = recs[entry_index + 1]

-----------------------------------------------------------------------------
(***************************************************************************)
(* Claims about Page::binary_search_by_key.                                *)
(***************************************************************************)

\* C24: on a key-ordered page, binary_search_by_key returns Ok(i) with entry i
\* matching when some entry matches; otherwise Err(Greater) when the first
\* entry is above the key, Err(Less) when the last entry is below the key, and
\* Err(Equal) when the page brackets the key without a match; an empty page
\* yields Err(Equal).
C24_PageSearchContract ==
    s_pc = "done" =>
        IF \E i \in 1..Len(entries) : entries[i] = key
        THEN result.ok /\ result.i < Len(entries) /\ entries[result.i + 1] = key
        ELSE /\ ~result.ok
             /\ result.ord = IF entries = <<>> THEN "Equal"
                             ELSE IF entries[1] > key THEN "Greater"
                             ELSE IF entries[Len(entries)] < key THEN "Less"
                             ELSE "Equal"

\* A page of several entries, two of them sharing the key searched, is
\* answered Ok.
C24_Witness ==
    /\ s_pc = "done"
    /\ result.ok
    /\ Cardinality({i \in 1..Len(entries) : entries[i] = key}) >= 2
    /\ entries[1] < key
    /\ entries[Len(entries)] > key

-----------------------------------------------------------------------------
(***************************************************************************)
(* Claims about threads sharing a Reader.                                  *)
(***************************************************************************)

\* C27: with several threads in get_page on different pages or on the same
\* page, the seek of a page and the decoding of its page_size records, heap
\* dereferences included, run with no other thread's seek or read in
\* between: every page published in the cache, and every page a handle is
\* on, holds exactly the records a decode running alone reads at
\* first_page_offset + (section.page_offset + page_index) * P, and an init
\* fails only where that decode fails.
C27_AtomicDecode ==
    r_pc = "idle" =>
        LET base == first_page_offset + hsec.page_offset * page_len
            alone(k) == DecodePage(TypeOf(ty), stream,
                            Seek(first_page_offset + k * page_len), base,
                            SectionPageSize(section.entry_count, page_len,
                                            encoded_size,
                                            k - section.page_offset))
        IN /\ \A k \in DOMAIN index :
                  index[k] # NoSlot =>
                      /\ alone(k).ok
                      /\ pool[index[k]].page = alone(k).val
           /\ \A a \in BagToSet(arcs) : pool[a.slot].page = alone(a.key).val
           /\ \A t \in Threads :
                  th[t].pc = "created" =>
                      (th[t].res = "Ok") = alone(th[t].key).ok

\* C27 witness: a thread holds the handle of a page of Vec records it
\* decoded and published, while the other thread, which missed the same page
\* before it was published and got the lock afterwards, has decoded the
\* page's first record through a heap dereference.
C27_Witness ==
    \E t, u \in Threads :
        /\ ty = "Vec"
        /\ th[t].pc = "idle"
        /\ th[t].ret.kind = "ref"
        /\ th[t].ret.via = "set"
        /\ th[u].pc = "decode"
        /\ th[u].n = 1
        /\ pool[th[u].slot].page[1] # <<>>
        /\ index[th[u].key] # NoSlot
        /\ index[th[u].key] # th[u].slot
        /\ \E a \in BagToSet(arcs) : a.slot = index[th[u].key]

-----------------------------------------------------------------------------
(***************************************************************************)
(* Claims about the iterators.                                             *)
(***************************************************************************)

\* C28: Reader::pages yields the handles of pages 0, 1, ... of the section
\* in that order and None after page_count(section) of them; Reader::iter
\* yields Ok handles of which the k-th is on entry k of the section (entry
\* k mod epp of page k div epp) and None after entry_count of them; an empty
\* section yields None at once; when get_page fails the error is yielded and
\* the iterator does not advance.
C28_IterationOrder ==
    [][LET entries_per_page == page_len \div encoded_size
           page_total == CeilingDiv(section.entry_count, entries_per_page)
       IN /\ (r_pc = "pages" /\ got' # got) =>
                 CASE got'.kind = "Ok" ->
                          /\ yielded < page_total
                          /\ got'.key = section.page_offset + yielded
                          /\ index'[got'.key] = got'.slot
                          /\ yielded' = yielded + 1
                   [] got'.kind = "None" ->
                          /\ yielded = page_total
                          /\ yielded' = yielded
                   [] got'.kind = "Err" ->
                          /\ pages' = pages
                          /\ yielded' = yielded
          /\ (r_pc = "iter_loop" /\ r_pc' = "iter") =>
                 CASE got'.kind = "Ok" ->
                          /\ yielded < section.entry_count
                          /\ got'.key = section.page_offset
                                          + yielded \div entries_per_page
                          /\ got'.i = yielded % entries_per_page
                          /\ index'[got'.key] = got'.slot
                          /\ got'.i < Len(pool'[got'.slot].page)
                          /\ yielded' = yielded + 1
                   [] got'.kind = "None" ->
                          /\ yielded = section.entry_count
                          /\ yielded' = yielded
                   [] got'.kind = "Err" ->
                          /\ pages' = pages
                          /\ ~current_page'.some
                          /\ yielded' = yielded
      ]_vars

\* C28 witness: Reader::iter has returned None after yielding the entries of
\* a section of several pages, the last of them partly filled.
C28_Witness ==
    /\ r_pc = "iter"
    /\ got.kind = "None"
    /\ yielded = section.entry_count
    /\ pages.page_count >= 2
    /\ section.entry_count % (page_len \div encoded_size) # 0

====
